---- MODULE Spec2Model ----
(***************************************************************************)
(* Relay connection pagination of graphene_django.fields                   *)
(* (DjangoConnectionField): connection_resolver, resolve_connection,       *)
(* connection_from_queryset, split_query and the hex cursor codec, over a  *)
(* Django table of rows (pk, age).  A queryset is lazy: every exists(),    *)
(* count() and iteration reads the table as it is when the query runs, so  *)
(* the resolver is a process whose steps are its database queries.         *)
(***************************************************************************)
EXTENDS Integers, Sequences, FiniteSets, TLC

\* ---------------------------------------------------------------- bounds
MaxPk == 3
MaxN == 2
MaxLimit == 1
MaxChanges == 1
MaxPages == 4

\* Python None for integers (first, last, max_limit, a NULL column, no pk)
None == 0 - 1
\* Python None for a string argument (never a string of characters)
NoneStr == <<"None">>

\* ------------------------------------------------------------ cursor codec
HexChars == <<"0","1","2","3","4","5","6","7","8","9","a","b","c","d","e","f">>
UpperHexChars == <<"0","1","2","3","4","5","6","7","8","9","A","B","C","D","E","F">>

RECURSIVE HexDigitsOf(_)
HexDigitsOf(n) ==
    IF n < 16 THEN <<HexChars[n + 1]>>
    ELSE Append(HexDigitsOf(n \div 16), HexChars[(n % 16) + 1])

\* str(): the decimal digits
RECURSIVE DecDigitsOf(_)
DecDigitsOf(n) ==
    IF n < 10 THEN <<HexChars[n + 1]>>
    ELSE Append(DecDigitsOf(n \div 10), HexChars[(n % 10) + 1])

\* the cursor written as str(instance.pk)
hex_as_str(n) == IF n < 0 THEN <<"-">> \o DecDigitsOf(0 - n) ELSE DecDigitsOf(n)

\* the builtin hex(): "0x" and lower-case digits, "-0x.." below zero
hex(n) ==
    IF n < 0 THEN <<"-", "0", "x">> \o HexDigitsOf(0 - n)
    ELSE <<"0", "x">> \o HexDigitsOf(n)

IsHexChar(c) == \E i \in 1..16 : HexChars[i] = c \/ UpperHexChars[i] = c
HexCharVal(c) == (CHOOSE i \in 1..16 : HexChars[i] = c \/ UpperHexChars[i] = c) - 1

RECURSIVE HexValue(_)
HexValue(s) ==
    IF s = <<>> THEN 0
    ELSE 16 * HexValue(SubSeq(s, 1, Len(s) - 1)) + HexCharVal(s[Len(s)])

StripSign(s) == IF s # <<>> /\ s[1] \in {"-", "+"} THEN Tail(s) ELSE s
StripPrefix(s) ==
    IF Len(s) >= 2 /\ s[1] = "0" /\ s[2] \in {"x", "X"} THEN SubSeq(s, 3, Len(s)) ELSE s

\* the builtin int(s, 16): optional sign, optional 0x, then hex digits;
\* ok = FALSE stands for ValueError
IntBase16(s) ==
    LET d == StripPrefix(StripSign(s))
        ok == d # <<>> /\ \A i \in 1..Len(d) : IsHexChar(d[i])
        neg == s # <<>> /\ s[1] = "-"
    IN  [ok |-> ok,
         val |-> IF ok THEN (IF neg THEN 0 - HexValue(d) ELSE HexValue(d)) ELSE 0]

\* instance_to_cursor: a model instance is always truthy and its pk an int
instance_to_cursor(instance) == hex(instance.pk)

\* ------------------------------------------------------------------ rows
F_pk == <<"p", "k">>
F_age == <<"a", "g", "e">>
\* the values of the nullable column: two values that compare, and NULL
Ages == {1, 2}
Rows == [pk : 1..MaxPk, age : {None} \cup Ages]
NoRow == [pk |-> None, age |-> None]
Tables == {t \in SUBSET Rows : \A r, s \in t : r.pk = s.pk => r = s}

getattr(instance, field) == IF field = F_pk THEN instance.pk ELSE instance.age
hasattr(field) == field \in {F_pk, F_age}

Truthy(n) == n # None /\ n # 0
IsInt(n) == n # None
StrTruthy(s) == s # NoneStr /\ s # <<>>
Min(a, b) == IF a < b THEN a ELSE b
Max(a, b) == IF a > b THEN a ELSE b

\* an element of order_by: "-field" is descending
startswith_minus(order) == order # <<>> /\ Head(order) = "-"
FieldOf(order) == IF startswith_minus(order) THEN Tail(order) ELSE order

\* ------------------------------------------------------------ split_query
\* sumq is a Q object in disjunctive form: a sequence of conjunctions of
\* lookups; <<>> stands for None (no ordering field had a value)
RECURSIVE BuildSumQ(_, _, _, _, _)
BuildSumQ(order_by, instance, i, q, sumq) ==
    IF i > Len(order_by) THEN sumq
    ELSE LET order == order_by[i]
             field == FieldOf(order)
             expr == IF startswith_minus(order) THEN "gt" ELSE "lt"
             o == getattr(instance, field)
         IN  IF o = None
             THEN BuildSumQ(order_by, instance, i + 1, q, sumq)
             ELSE BuildSumQ(order_by, instance, i + 1,
                      Append(q, [field |-> field, lookup |-> "exact", value |-> o]),
                      Append(sumq, Append(q, [field |-> field, lookup |-> expr, value |-> o])))

\* one lookup on one row, as SQL evaluates it: a NULL column matches nothing
LookupHolds(row, l) ==
    LET v == getattr(row, l.field)
    IN  /\ v # None
        /\ CASE l.lookup = "exact" -> v = l.value
             [] l.lookup = "lt" -> v < l.value
             [] OTHER -> v > l.value

QMatches(row, sumq) ==
    \E i \in 1..Len(sumq) : \A j \in 1..Len(sumq[i]) : LookupHolds(row, sumq[i][j])

\* queryset.filter(sumq), queryset.exclude(sumq).exclude(pk=instance.pk);
\* exclude() is the complement of filter() within the queryset
split_query(queryset, order_by, instance) ==
    LET sumq == BuildSumQ(order_by, instance, 1, <<>>, <<>>)
    IN  <<{r \in queryset : QMatches(r, sumq)},
          {r \in queryset : ~QMatches(r, sumq) /\ r.pk # instance.pk}>>

\* what split_query raises: getattr on an unknown field, filter(None)
SplitRaises(order_by, instance) ==
    IF \E i \in 1..Len(order_by) : ~hasattr(FieldOf(order_by[i])) THEN "AttributeError"
    ELSE IF BuildSumQ(order_by, instance, 1, <<>>, <<>>) = <<>> THEN "TypeError"
    ELSE ""

\* ------------------------------------------------- the database's ORDER BY
\* NULL sorts as the smallest value on sqlite and as the largest on postgresql
ValueLess(a, b, db) ==
    IF a = None THEN b # None /\ db = "sqlite"
    ELSE IF b = None THEN db = "postgresql"
    ELSE a < b

RECURSIVE RowBefore(_, _, _, _, _, _)
RowBefore(r, s, order_by, i, db, tie_desc) ==
    IF i > Len(order_by)
    THEN IF tie_desc THEN r.pk > s.pk ELSE r.pk < s.pk
    ELSE LET a == getattr(r, FieldOf(order_by[i]))
             b == getattr(s, FieldOf(order_by[i]))
         IN  IF a = b THEN RowBefore(r, s, order_by, i + 1, db, tie_desc)
             ELSE IF startswith_minus(order_by[i]) THEN ValueLess(b, a, db)
             ELSE ValueLess(a, b, db)

\* the rows of a set in the order the database returns them
Ordered(S, order_by, db, tie_desc) ==
    [i \in 1..Cardinality(S) |->
        CHOOSE r \in S :
            Cardinality({s \in S : RowBefore(s, r, order_by, 1, db, tie_desc)}) = i - 1]

\* queryset[low:high] on a sequence of rows; high = None is no upper limit
Slice(seq, low, high) ==
    SubSeq(seq, low + 1, IF high = None THEN Len(seq) ELSE Min(high, Len(seq)))

\* the sequences of a sequence, one after the other
RECURSIVE Flatten(_)
Flatten(ss) == IF ss = <<>> THEN <<>> ELSE Head(ss) \o Flatten(Tail(ss))

\* ------------------------------------------------------------------ state
VARIABLES
    table,                  \* the rows of the model's table
    db,                     \* the database backend (decides where NULL sorts)
    tie_desc,               \* how the backend returns rows that tie under ORDER BY
    flt,                    \* the age the field's resolver filters on, or None
    order_by,               \* the ordering of the queryset, as connection_from_queryset derives it
    max_limit,              \* DjangoConnectionField.max_limit
    enforce_first_or_last,  \* DjangoConnectionField.enforce_first_or_last
    pc,                     \* where the resolver stands
    args,                   \* before, after, first, last of the request
    before, after,          \* the instances the cursors resolved to
    has_next_page, has_previous_page,
    low_mark, high_mark,    \* the slice taken of the lazy queryset
    index,                  \* max(0, queryset.count() - last)
    edges,                  \* the edges of the page
    outcome,                \* "none", "page" or "error" (the field resolves to null)
    error,                  \* the exception raised
    trav,                   \* the client pages forward with first=k, after=endCursor
    got,                    \* the pages the traversing client has received before this request
    changes,                \* rows inserted or deleted by other processes since the first request
    snaps                   \* the tables that existed while the current request was resolved

\* the state of the other components of the package; a connection request
\* leaves it alone
VARIABLES
    instance_pk,            \* cursor codec: the pk of the instance to encode
    node_cursor,            \* cursor codec: what instance_to_cursor returned
    decoded,                \* cursor codec: what cursor_to_instance returned
    order_by_arg,           \* ordering: args['order_by'] of the request
    ordering,               \* ordering: queryset.model._meta.ordering
    derived,                \* ordering: the order_by connection_from_queryset derived
    field_ast,              \* planner: the selection tree of the connection field
    root_model,             \* planner: queryset.model
    related,                \* planner: what _search_related returned
    phase,                  \* websocket: where the client stands (new, connecting, open, inited, closed)
    consumer,               \* websocket: "running" until a handler raises StopConsumer
    inbox,                  \* websocket: messages of the client the consumer has not dispatched yet
    ready,                  \* websocket: the send tasks ensure_future scheduled on the event loop
    wire,                   \* websocket: every frame the consumer has sent, oldest first
    client_read,            \* websocket: how many frames of the wire the client has received
    asked,                  \* websocket: per id, the start message the client sent
    stop_sent,              \* websocket: the ids the client sent a stop message for
    subs,                   \* websocket: per id, the subscription the consumer runs
    disposable_map,         \* websocket: disposable_map: the start behind each id, 0 for none
    channel,                \* websocket: per id, the channel its dispatch task reads
    window,                 \* websocket: per id, the events sent to the group while it was active
    group_sent,             \* websocket: how many events were sent to the channel group
    pets,                   \* mutations: the rows of the Pet table
    next_pk,                \* mutations: the primary key the next INSERT gets
    calls,                  \* mutations: the mutations executed so far, oldest first
    sp_table,               \* split: the rows of the model's table
    sp_filtered,            \* split: whether the queryset split is the table filtered on age
    sp_order_by,            \* split: the order_by the queryset is split under
    sp_instance,            \* split: the anchor, an instance of the model
    sp_db,                  \* split: the database backend
    sp_tie,                 \* split: how the backend returns rows that tie
    sp_parts,               \* split: what split_query returned
    sp_cursors,             \* split: what get_before_and_after_cursor returned
    present,                \* the rows that have been in the table since the traversal began
    used,                   \* the rows the table has ever held
    race,                   \* the get-or-create mutations running at the same time
    order_by_value,         \* ordering filter: the orderBy argument of the request
    filter_ordering,        \* ordering filter: the fields the filter ordered the queryset by
    resolver_order_by       \* ordering filter: the order_by the resolver splits with

paging == <<table, db, tie_desc, flt, order_by, max_limit, enforce_first_or_last, pc, args,
            before, after, has_next_page, has_previous_page, low_mark, high_mark, index,
            edges, outcome, error, trav, got, changes, snaps>>
codec == <<instance_pk, node_cursor, decoded>>
orderspec == <<order_by_arg, ordering, derived>>
planner == <<field_ast, root_model, related>>
socket == <<phase, consumer, inbox, ready, wire, client_read, asked, stop_sent, subs,
            disposable_map, channel, window, group_sent>>
mutations == <<pets, next_pk, calls>>
splitter == <<sp_table, sp_filtered, sp_order_by, sp_instance, sp_db, sp_tie, sp_parts,
              sp_cursors>>
history == <<present, used>>
racers == <<race>>
ordfilter == <<order_by_value, filter_ordering, resolver_order_by>>

\* not computed yet
NoCursor == <<"pending">>
NotDecoded == [exc |-> "pending", instance |-> [pk |-> None, age |-> None]]
NotDerived == <<<<"pending">>>>
\* a key the dict does not hold, an attribute the class does not have
Missing == [kind |-> "missing", str |-> <<>>, list |-> <<>>]

CodecIdle == instance_pk = None /\ node_cursor = NoCursor /\ decoded = NotDecoded
OrderIdle == order_by_arg = Missing /\ ordering = Missing /\ derived = NotDerived
\* a field of a selection set: its name and its own selection set; NoField is None
NoField == [name |-> "", sel |-> <<>>]
NoModel == ""
NotPlanned == <<[flag |-> FALSE, path |-> <<"pending">>]>>
PlannerIdle == field_ast = NoField /\ root_model = NoModel /\ related = NotPlanned

\* ids of graphql-ws operations
Ids == {1, 2}
\* the start messages of a connection, in the order the client sends them
Starts == 1..Cardinality(Ids)
NoStart == [at |-> None, id |-> None, op |-> "", up_to |-> 0]
NoSub == [op |-> "", up_to |-> 0, counter |-> 0, task |-> "none", joined |-> FALSE,
          holding |-> 0, disposed |-> FALSE]
SocketIdle ==
    /\ phase = "new" /\ consumer = "running"
    /\ inbox = <<>> /\ ready = <<>> /\ wire = <<>> /\ client_read = 0
    /\ asked = [k \in Starts |-> NoStart] /\ stop_sent = {}
    /\ subs = [k \in Starts |-> NoSub] /\ disposable_map = [i \in Ids |-> 0]
    /\ channel = [k \in Starts |-> <<>>] /\ window = [k \in Starts |-> <<>>]
    /\ group_sent = 0

MutationsIdle == pets = {} /\ next_pk = 1 /\ calls = <<>>

NotSplit == [exc |-> "pending", before |-> {}, after |-> {}]
NotNamed == [exc |-> "pending", before |-> NoneStr, after |-> NoneStr]
SplitterIdle ==
    /\ sp_table = {} /\ sp_filtered = FALSE /\ sp_order_by = <<>> /\ sp_instance = NoRow
    /\ sp_db = "sqlite" /\ sp_tie = FALSE /\ sp_parts = NotSplit /\ sp_cursors = NotNamed

HistoryIdle == present = {} /\ used = {}
NoRace == [input |-> [keys |-> {}, id |-> [type |-> "", id |-> <<>>], name |-> "", age |-> None],
           before |-> {}, procs |-> <<>>]
RaceIdle == race = NoRace
OrdFilterIdle ==
    order_by_value = <<>> /\ filter_ordering = NotDerived /\ resolver_order_by = NotDerived

elsewhere == <<codec, orderspec, planner, socket, mutations, splitter, history, racers,
    ordfilter>>
but_codec == <<paging, orderspec, planner, socket, mutations, splitter, history, racers,
    ordfilter>>
but_orderspec == <<paging, codec, planner, socket, mutations, splitter, history, racers,
    ordfilter>>
but_planner == <<paging, codec, orderspec, socket, mutations, splitter, history, racers,
    ordfilter>>
but_socket == <<paging, codec, orderspec, planner, mutations, splitter, history, racers,
    ordfilter>>
but_mutations == <<paging, codec, orderspec, planner, socket, splitter, history, racers,
    ordfilter>>
but_splitter == <<paging, codec, orderspec, planner, socket, mutations, history, racers,
    ordfilter>>
but_history == <<codec, orderspec, planner, socket, mutations, splitter, racers,
    ordfilter>>
but_racers == <<paging, codec, orderspec, planner, socket, splitter, history,
    ordfilter>>
but_ordfilter == <<paging, codec, orderspec, planner, socket, mutations, splitter, history,
    racers>>
\* every component but c is at rest
IdleBut(c) ==
    /\ c # "codec" => CodecIdle
    /\ c # "orderspec" => OrderIdle
    /\ c # "planner" => PlannerIdle
    /\ c # "socket" => SocketIdle
    /\ c \notin {"mutations", "racers"} => MutationsIdle
    /\ c # "splitter" => SplitterIdle
    /\ c # "history" => HistoryIdle
    /\ c # "racers" => RaceIdle
    /\ c # "ordfilter" => OrdFilterIdle

vars == <<paging, elsewhere>>

world == <<db, tie_desc, flt, order_by, max_limit, enforce_first_or_last, elsewhere>>
frame == <<before, after, has_next_page, has_previous_page, low_mark, high_mark, index,
           edges, outcome, error>>

field_name == "allReporters"
NoError == [exc |-> "", text |-> "", field |-> "", requested |-> None, max |-> None]
AssertionError(text, field, requested, max) ==
    [exc |-> "AssertionError", text |-> text, field |-> field,
     requested |-> requested, max |-> max]
Raised(exc) == [exc |-> exc, text |-> "", field |-> "", requested |-> None, max |-> None]

Malformed == <<"z", "z">>
CursorArgs == {NoneStr, <<>>, Malformed} \cup {hex(p) : p \in 1..MaxPk}
Counts == {None} \cup (0..MaxN)
OrderSpecs == {<<F_pk>>, <<<<"-">> \o F_pk>>, <<F_age, F_pk>>,
               <<<<"-">> \o F_age, <<"-">> \o F_pk>>, <<F_age>>}
MentionsAge(o) == \E i \in 1..Len(o) : FieldOf(o[i]) = F_age
EndsWithPk(o) == FieldOf(o[Len(o)]) = F_pk

\* ---------------------------------------------------- connection_resolver
\* the assertions with the check of last left out
ResolverCheck_no_last_check(first, last, max, enforce) ==
    IF enforce /\ ~(Truthy(first) \/ Truthy(last))
    THEN AssertionError("You must provide a first or last value", field_name, None, None)
    ELSE IF Truthy(max) /\ Truthy(first) /\ ~(first <= max)
    THEN AssertionError("exceeds the first limit", field_name, first, max)
    ELSE IF Truthy(max) /\ ~(Truthy(first) \/ Truthy(last))
    THEN AssertionError("set max_limit without first or last", "", None, max)
    ELSE NoError

\* the assertions with the max_limit block placed before the enforce_first_or_last one
ResolverCheck_limit_first(first, last, max, enforce) ==
    IF Truthy(max) /\ Truthy(first) /\ ~(first <= max)
    THEN AssertionError("exceeds the first limit", field_name, first, max)
    ELSE IF Truthy(max) /\ Truthy(last) /\ ~(last <= max)
    THEN AssertionError("exceeds the last limit", field_name, last, max)
    ELSE IF Truthy(max) /\ ~(Truthy(first) \/ Truthy(last))
    THEN AssertionError("set max_limit without first or last", "", None, max)
    ELSE IF enforce /\ ~(Truthy(first) \/ Truthy(last))
    THEN AssertionError("You must provide a first or last value", field_name, None, None)
    ELSE NoError

\* the assertions with "if max_limit is not None" for "if max_limit"
ResolverCheck_zero_is_a_limit(first, last, max, enforce) ==
    IF enforce /\ ~(Truthy(first) \/ Truthy(last))
    THEN AssertionError("You must provide a first or last value", field_name, None, None)
    ELSE IF max # None /\ Truthy(first) /\ ~(first <= max)
    THEN AssertionError("exceeds the first limit", field_name, first, max)
    ELSE IF max # None /\ Truthy(last) /\ ~(last <= max)
    THEN AssertionError("exceeds the last limit", field_name, last, max)
    ELSE IF max # None /\ ~(Truthy(first) \/ Truthy(last))
    THEN AssertionError("set max_limit without first or last", "", None, max)
    ELSE NoError

\* the assertions made before the iterable is resolved
ResolverCheck(first, last, max, enforce) ==
    IF enforce /\ ~(Truthy(first) \/ Truthy(last))
    THEN AssertionError("You must provide a first or last value", field_name, None, None)
    ELSE IF Truthy(max) /\ Truthy(first) /\ ~(first <= max)
    THEN AssertionError("exceeds the first limit", field_name, first, max)
    ELSE IF Truthy(max) /\ Truthy(last) /\ ~(last <= max)
    THEN AssertionError("exceeds the last limit", field_name, last, max)
    ELSE IF Truthy(max) /\ ~(Truthy(first) \/ Truthy(last))
    THEN AssertionError("set max_limit without first or last", "", None, max)
    ELSE NoError

\* the iterable the field's resolver returns (the default manager when flt is None)
Iterable(tbl) == {r \in tbl : flt = None \/ r.age = flt}

\* ------------------------------------------------ connection_from_queryset
\* a lookup with filter(pk=...).first(), which returns None where get() raises
cursor_to_instance_or_none(tbl, cursor) ==
    IF ~StrTruthy(cursor) THEN [exc |-> "", instance |-> NoRow]
    ELSE IF ~IntBase16(cursor).ok THEN [exc |-> "ValueError", instance |-> NoRow]
    ELSE IF \E r \in tbl : r.pk = IntBase16(cursor).val
         THEN [exc |-> "", instance |-> CHOOSE r \in tbl : r.pk = IntBase16(cursor).val]
         ELSE [exc |-> "", instance |-> NoRow]

\* cursor_to_instance: None for a falsy cursor, ValueError from int(), DoesNotExist from get()
cursor_to_instance(tbl, cursor) ==
    IF ~StrTruthy(cursor) THEN [exc |-> "", instance |-> NoRow]
    ELSE IF ~IntBase16(cursor).ok THEN [exc |-> "ValueError", instance |-> NoRow]
    ELSE IF \E r \in tbl : r.pk = IntBase16(cursor).val
         THEN [exc |-> "", instance |-> CHOOSE r \in tbl : r.pk = IntBase16(cursor).val]
         ELSE [exc |-> "DoesNotExist", instance |-> NoRow]

\* the queryset after the splits at the before and after instances
Remaining(tbl, b, a) ==
    LET qs == IF b # NoRow THEN split_query(Iterable(tbl), order_by, b)[1] ELSE Iterable(tbl)
    IN  IF a # NoRow THEN split_query(qs, order_by, a)[2] ELSE qs

Queryset(tbl, b, a) == Ordered(Remaining(tbl, b, a), order_by, db, tie_desc)

\* what the two split_query calls raise for the resolved instances
SplitsRaise(b, a) ==
    IF b # NoRow /\ SplitRaises(order_by, b) # "" THEN SplitRaises(order_by, b)
    ELSE IF a # NoRow THEN SplitRaises(order_by, a)
    ELSE ""

\* exists() asked of queryset[first - 1:]
ExistsBeyond_from_last_taken(qs, first) == Slice(qs, Max(0, first - 1), None) # <<>>

\* has_next_page = queryset[first:].exists()
ExistsBeyond(qs, first) == Slice(qs, first, None) # <<>>
\* has_previous_page = queryset[:index].exists(), on the queryset already cut at high
ExistsBelow(qs, idx, high) ==
    Slice(qs, 0, IF high = None THEN idx ELSE Min(high, idx)) # <<>>
\* index = max(0, queryset.count() - last)
TailIndex(qs, high, last) == Max(0, Len(Slice(qs, 0, high)) - last)
LowMark(idx, high) == IF high = None THEN idx ELSE Min(high, idx)
MakeEdges(rows) == [i \in 1..Len(rows) |-> [node |-> rows[i], cursor |-> instance_to_cursor(rows[i])]]

start_cursor(es) == IF es # <<>> THEN es[1].cursor ELSE NoneStr
end_cursor(es) == IF es # <<>> THEN es[Len(es)].cursor ELSE NoneStr
NodePks(es) == [i \in 1..Len(es) |-> es[i].node.pk]

\* where the resolver goes next: steps that have nothing to do are passed over
PcLast(a) == IF IsInt(a.last) THEN "last" ELSE "edges"
PcFirst(a) == IF IsInt(a.first) THEN "first" ELSE PcLast(a)
PcCursors(a) ==
    IF StrTruthy(a.before) THEN "before"
    ELSE IF StrTruthy(a.after) THEN "after" ELSE PcFirst(a)

NoArgs == [before |-> NoneStr, after |-> NoneStr, first |-> None, last |-> None]

Worlds ==
    [db : {"sqlite", "postgresql"}, tie_desc : BOOLEAN, flt : {None, 1},
     order_by : OrderSpecs, max_limit : {None} \cup (0..MaxLimit), enforce : BOOLEAN]

\* the schemas and tables the requests are run against: every ordering on
\* tables with and without NULLs, a filtering resolver, and every
\* configuration of the field
Scenario(t, w) ==
    LET plain == w.max_limit = None /\ ~w.enforce /\ w.flt = None
        sqlite_pk == w.db = "sqlite" /\ ~w.tie_desc /\ w.order_by = <<F_pk>>
    IN  \/ /\ plain /\ ~MentionsAge(w.order_by)
           /\ w.db = "sqlite" /\ ~w.tie_desc
           /\ \A r \in t : r.age = 1
        \/ /\ plain /\ MentionsAge(w.order_by) /\ EndsWithPk(w.order_by)
           /\ ~w.tie_desc
           /\ {r.pk : r \in t} = 1..MaxPk
        \/ /\ plain /\ ~EndsWithPk(w.order_by)
           /\ w.db = "sqlite"
           /\ {r.pk : r \in t} = 1..MaxPk
        \/ /\ w.flt # None /\ w.max_limit = None /\ ~w.enforce /\ sqlite_pk
           /\ \A r \in t : r.age # None
        \/ /\ w.flt = None /\ ~(w.max_limit = None /\ ~w.enforce) /\ sqlite_pk
           /\ \A r \in t : r.age = 1

Init ==
    /\ table \in Tables
    /\ \E w \in Worlds :
        /\ Scenario(table, w)
        /\ db = w.db /\ tie_desc = w.tie_desc /\ flt = w.flt /\ order_by = w.order_by
        /\ max_limit = w.max_limit /\ enforce_first_or_last = w.enforce
    /\ pc = "idle" /\ args = NoArgs
    /\ before = NoRow /\ after = NoRow
    /\ has_next_page = FALSE /\ has_previous_page = FALSE
    /\ low_mark = 0 /\ high_mark = None /\ index = None
    /\ edges = <<>> /\ outcome = "none" /\ error = NoError
    /\ trav = FALSE /\ got = <<>> /\ changes = 0 /\ snaps = {table}
    /\ IdleBut("paging")

\* the exception reaches the executor: the field resolves to null
Fail(e) ==
    /\ outcome' = "error" /\ error' = e /\ pc' = "done"
    /\ UNCHANGED <<before, after, has_next_page, has_previous_page, low_mark, high_mark,
                   index, edges>>

\* connection_resolver up to resolve_connection: the assertions on first and last
Enter(a) ==
    /\ args' = a
    /\ snaps' = {table}
    /\ LET e == ResolverCheck(a.first, a.last, max_limit, enforce_first_or_last)
       IN  IF e # NoError
           THEN /\ outcome' = "error" /\ error' = e /\ pc' = "done"
                /\ before' = NoRow /\ after' = NoRow
                /\ has_next_page' = FALSE /\ has_previous_page' = FALSE
                /\ low_mark' = 0 /\ high_mark' = None /\ index' = None /\ edges' = <<>>
           ELSE /\ outcome' = "none" /\ error' = NoError /\ pc' = PcCursors(a)
                /\ before' = NoRow /\ after' = NoRow
                /\ has_next_page' = FALSE /\ has_previous_page' = FALSE
                /\ low_mark' = 0 /\ high_mark' = None /\ index' = None /\ edges' = <<>>

\* a client sends one request
Request ==
    /\ pc = "idle"
    /\ \E b \in CursorArgs, a \in CursorArgs, f \in Counts, l \in Counts :
           Enter([before |-> b, after |-> a, first |-> f, last |-> l])
    /\ trav' = FALSE
    /\ UNCHANGED <<table, world, got, changes>>

\* a client starts paging forward with first=k
Traverse ==
    /\ pc = "idle"
    /\ \E k \in 1..MaxN : Enter([NoArgs EXCEPT !.first = k])
    /\ trav' = TRUE
    /\ UNCHANGED <<table, world, got, changes>>

\* before = cls.cursor_to_instance(args.get('before'), model_type)
ResolveBefore ==
    /\ pc = "before"
    /\ LET r == cursor_to_instance(table, args.before)
       IN  IF r.exc # "" THEN Fail(Raised(r.exc))
           ELSE IF StrTruthy(args.after)
           THEN /\ before' = r.instance /\ pc' = "after"
                /\ UNCHANGED <<after, has_next_page, has_previous_page, low_mark, high_mark,
                               index, edges, outcome, error>>
           ELSE IF SplitsRaise(r.instance, NoRow) # ""
           THEN Fail(Raised(SplitsRaise(r.instance, NoRow)))
           ELSE /\ before' = r.instance /\ has_next_page' = TRUE /\ pc' = PcFirst(args)
                /\ UNCHANGED <<after, has_previous_page, low_mark, high_mark, index,
                               edges, outcome, error>>
    /\ UNCHANGED <<table, world, args, trav, got, changes, snaps>>

\* after = cls.cursor_to_instance(args.get('after'), model_type), then the splits
ResolveAfter ==
    /\ pc = "after"
    /\ LET r == cursor_to_instance(table, args.after)
       IN  IF r.exc # "" THEN Fail(Raised(r.exc))
           ELSE IF SplitsRaise(before, r.instance) # ""
           THEN Fail(Raised(SplitsRaise(before, r.instance)))
           ELSE /\ after' = r.instance /\ pc' = PcFirst(args)
                /\ has_next_page' = (before # NoRow) /\ has_previous_page' = TRUE
                /\ UNCHANGED <<before, low_mark, high_mark, index, edges, outcome, error>>
    /\ UNCHANGED <<table, world, args, trav, got, changes, snaps>>

\* if isinstance(first, int): has_next_page = queryset[first:].exists(); queryset = queryset[:first]
ApplyFirst ==
    /\ pc = "first"
    /\ has_next_page' = ExistsBeyond(Queryset(table, before, after), args.first)
    /\ high_mark' = args.first
    /\ pc' = PcLast(args)
    /\ UNCHANGED <<table, world, args, before, after, has_previous_page, low_mark, index,
                   edges, outcome, error, trav, got, changes, snaps>>

\* if isinstance(last, int): index = max(0, queryset.count() - last)
CountForLast ==
    /\ pc = "last"
    /\ index' = TailIndex(Queryset(table, before, after), high_mark, args.last)
    /\ pc' = "last_exists"
    /\ UNCHANGED <<table, world, args, before, after, has_next_page, has_previous_page,
                   low_mark, high_mark, edges, outcome, error, trav, got, changes, snaps>>

\* has_previous_page = queryset[:index].exists(); queryset = queryset[index:]
ApplyLast ==
    /\ pc = "last_exists"
    /\ has_previous_page' = ExistsBelow(Queryset(table, before, after), index, high_mark)
    /\ low_mark' = LowMark(index, high_mark)
    /\ pc' = "edges"
    /\ UNCHANGED <<table, world, args, before, after, has_next_page, high_mark, index,
                   edges, outcome, error, trav, got, changes, snaps>>

\* edges = [edge_type(node=node, cursor=...) for node in queryset]; return the connection
BuildEdges ==
    /\ pc = "edges"
    /\ edges' = MakeEdges(Slice(Queryset(table, before, after), low_mark, high_mark))
    /\ outcome' = "page"
    /\ pc' = "done"
    /\ UNCHANGED <<table, world, args, before, after, has_next_page, has_previous_page,
                   low_mark, high_mark, index, error, trav, got, changes, snaps>>

\* the traversing client asks for the next page: first=k, after=endCursor
NextPage ==
    /\ pc = "done" /\ trav /\ outcome = "page" /\ has_next_page
    /\ Len(got) < MaxPages
    /\ got' = Append(got, NodePks(edges))
    /\ Enter([args EXCEPT !.after = end_cursor(edges)])
    /\ UNCHANGED <<table, world, trav, changes>>

\* another process inserts a row
Insert ==
    /\ pc \notin {"idle"}
    /\ pc = "done" => (trav /\ outcome = "page" /\ has_next_page)
    /\ changes < MaxChanges
    /\ \E r \in Rows :
        /\ \A s \in table : s.pk # r.pk
        /\ table' = table \cup {r}
        /\ snaps' = snaps \cup {table \cup {r}}
    /\ changes' = changes + 1
    /\ UNCHANGED <<world, pc, args, frame, trav, got>>

\* another process deletes a row
Delete ==
    /\ pc \notin {"idle"}
    /\ pc = "done" => (trav /\ outcome = "page" /\ has_next_page)
    /\ changes < MaxChanges
    /\ \E r \in table :
        /\ table' = table \ {r}
        /\ snaps' = snaps \cup {table \ {r}}
    /\ changes' = changes + 1
    /\ UNCHANGED <<world, pc, args, frame, trav, got>>

Resolve ==
    \/ ResolveBefore \/ ResolveAfter \/ ApplyFirst \/ CountForLast \/ ApplyLast \/ BuildEdges

\* requests against a table nobody else writes
Next == Request \/ Traverse \/ Resolve \/ NextPage
Spec == Init /\ [][Next]_vars

\* requests while other processes insert and delete rows
InitConc ==
    /\ Init
    /\ flt = None /\ max_limit = None /\ ~enforce_first_or_last
    /\ order_by = <<F_pk>>
    /\ \A r \in table : r.age = 1
NextConc == Next \/ Insert \/ Delete
SpecConc == InitConc /\ [][NextConc]_vars

\* no connection request is being resolved
PagingIdle ==
    /\ table = {} /\ db = "sqlite" /\ tie_desc = FALSE /\ flt = None /\ order_by = <<F_pk>>
    /\ max_limit = None /\ enforce_first_or_last = FALSE
    /\ pc = "idle" /\ args = NoArgs
    /\ before = NoRow /\ after = NoRow
    /\ has_next_page = FALSE /\ has_previous_page = FALSE
    /\ low_mark = 0 /\ high_mark = None /\ index = None
    /\ edges = <<>> /\ outcome = "none" /\ error = NoError
    /\ trav = FALSE /\ got = <<>> /\ changes = 0 /\ snaps = {{}}

\* ---------------------------------------------- the cursor codec by itself
MaxKey == 300
\* the primary keys of the model's rows: integers of either sign
Keys == (0 - MaxKey)..MaxKey
\* the table holds one row for every key
KeyTable == {[pk |-> k, age |-> 1] : k \in Keys}

InitCodec ==
    /\ PagingIdle /\ IdleBut("codec")
    /\ instance_pk \in Keys /\ node_cursor = NoCursor /\ decoded = NotDecoded

\* cursor = cls.instance_to_cursor(node)
EncodeCursor ==
    /\ node_cursor = NoCursor
    /\ node_cursor' = instance_to_cursor([pk |-> instance_pk, age |-> 1])
    /\ UNCHANGED <<but_codec, instance_pk, decoded>>

\* cls.cursor_to_instance(args.get('after'), model_type) on the cursor handed back
DecodeCursor ==
    /\ node_cursor # NoCursor /\ decoded = NotDecoded
    /\ decoded' = cursor_to_instance(KeyTable, node_cursor)
    /\ UNCHANGED <<but_codec, instance_pk, node_cursor>>

NextCodec == EncodeCursor \/ DecodeCursor
SpecCodec == InitCodec /\ [][NextCodec]_vars

\* ------------------------------------------- the derivation of order_by
MaxStr == 4
MaxList == 2
\* the characters of an order_by string, and the tokens of an order_by list
OrderChars == {"a", "-", ","}
OrderTokens == {<<"a">>, <<"-", "a">>}
SeqsUpTo(S, n) == UNION {[1..k -> S] : k \in 0..n}
\* args['order_by']: not given, None, a string, a list
OrderArgs ==
    {Missing, [kind |-> "None", str |-> <<>>, list |-> <<>>]}
    \cup {[kind |-> "str", str |-> v, list |-> <<>>] : v \in SeqsUpTo(OrderChars, MaxStr)}
    \cup {[kind |-> "list", str |-> <<>>, list |-> v] : v \in SeqsUpTo(OrderTokens, MaxList)}
\* Meta.ordering: not declared, or a list
Orderings ==
    {Missing} \cup {[kind |-> "list", str |-> <<>>, list |-> v] : v \in SeqsUpTo(OrderTokens, 1)}

\* str.split(','): the pieces between the commas, empty pieces kept
RECURSIVE split(_, _)
split(s, piece) ==
    IF s = <<>> THEN <<piece>>
    ELSE IF Head(s) = "," THEN <<piece>> \o split(Tail(s), <<>>)
    ELSE split(Tail(s), Append(piece, Head(s)))

\* the truth value of a string, a list or None
NonEmpty(v) == (v.kind = "str" /\ v.str # <<>>) \/ (v.kind = "list" /\ v.list # <<>>)

\* the derivation that trusts Meta.ordering to hold a field whenever it is declared
derive_order_by_trusting(arg, meta) ==
    IF NonEmpty(arg) THEN (IF arg.kind = "str" THEN split(arg.str, <<>>) ELSE arg.list)
    ELSE IF meta.kind = "list" THEN meta.list
    ELSE <<F_pk>>

\* the first lines of connection_from_queryset
derive_order_by(arg, meta) ==
    IF NonEmpty(arg) THEN (IF arg.kind = "str" THEN split(arg.str, <<>>) ELSE arg.list)
    ELSE IF NonEmpty(meta) THEN meta.list
    ELSE <<F_pk>>

InitOrder ==
    /\ PagingIdle /\ IdleBut("orderspec")
    /\ order_by_arg \in OrderArgs /\ ordering \in Orderings /\ derived = NotDerived

DeriveOrder ==
    /\ derived = NotDerived
    /\ derived' = derive_order_by(order_by_arg, ordering)
    /\ UNCHANGED <<but_orderspec, order_by_arg, ordering>>

NextOrder == DeriveOrder
SpecOrder == InitOrder /\ [][NextOrder]_vars

\* ------------------------------------------------- the relation planner
MaxNodes == 5
\* the models and their relation descriptors: a forward or reverse one-to-one
\* is to-one, a many-to-many or a reverse foreign key is to-many
Models == {"Film", "FilmDetails", "Reporter"}
Relations ==
    {[on |-> "Film", name |-> "details", f |-> TRUE, m |-> "FilmDetails"],
     [on |-> "Film", name |-> "reporters", f |-> FALSE, m |-> "Reporter"],
     [on |-> "FilmDetails", name |-> "film", f |-> TRUE, m |-> "Film"],
     [on |-> "Reporter", name |-> "films", f |-> FALSE, m |-> "Film"]}
\* the names a selection can hold that the planner looks at; a name that is no
\* relation of the model (a scalar such as id) is passed over like "node" below
\* a relation
FieldNames == {"edges", "node", "details", "reporters", "film", "films"}

\* the number of fields selected below a field
RECURSIVE Size(_)
Size(field) ==
    IF field.sel = <<>> THEN 0
    ELSE Len(field.sel) + Size([name |-> "", sel |-> Flatten([i \in 1..Len(field.sel) |-> field.sel[i].sel])])

\* the places of a tree: the root is <<>>, its i-th selection <<i>>, and so on
RECURSIVE Places(_)
Places(field) ==
    {<<>>} \cup UNION {{<<i>> \o q : q \in Places(field.sel[i])} : i \in 1..Len(field.sel)}

\* the tree with one more field, selected last at place q
RECURSIVE Select(_, _, _)
Select(field, q, nm) ==
    IF q = <<>> THEN [field EXCEPT !.sel = Append(@, [name |-> nm, sel |-> <<>>])]
    ELSE [field EXCEPT !.sel[Head(q)] = Select(@, Tail(q), nm)]

\* f, m = cls._get_related_model(getattr(model, name, None))
_get_related_model(model, name) ==
    IF \E r \in Relations : r.on = model /\ r.name = name
    THEN LET r == CHOOSE r \in Relations : r.on = model /\ r.name = name
         IN  [f |-> r.f, m |-> r.m]
    ELSE [f |-> FALSE, m |-> NoModel]

\* the first selection of that name, or None
find_named(field, name) ==
    IF field = NoField \/ ~\E i \in 1..Len(field.sel) : field.sel[i].name = name
    THEN NoField
    ELSE field.sel[CHOOSE i \in 1..Len(field.sel) :
                       /\ field.sel[i].name = name
                       /\ \A k \in 1..(i - 1) : field.sel[k].name # name]
find_edges(field) == find_named(field, "edges")
find_node(field) == find_named(field, "node")

format(prefix, path) == <<prefix, "__">> \o path

RECURSIVE _search_related(_, _, _, _)
RECURSIVE find_field(_, _, _, _)
\* find_field, from the i-th selection on
find_field(field, model, prefix_bool, i) ==
    IF field = NoField \/ i > Len(field.sel) THEN <<>>
    ELSE LET cur_ast == field.sel[i]
             rel == _get_related_model(model, cur_ast.name)
             rest == find_field(field, model, prefix_bool, i + 1)
         IN  IF cur_ast.name = "edges" THEN rest
             ELSE IF rel.m # NoModel
             THEN <<[flag |-> rel.f, path |-> <<cur_ast.name>>]>>
                  \o _search_related(cur_ast, rel.m, cur_ast.name, prefix_bool /\ rel.f)
                  \o rest
             ELSE rest

_search_related(field_ast_, model, prefix, prefix_bool) ==
    LET found == find_field(field_ast_, model, prefix_bool, 1)
                 \o find_field(find_node(find_edges(field_ast_)), model, prefix_bool, 1)
    IN  IF prefix # ""
        THEN [i \in 1..Len(found) |->
                 [flag |-> found[i].flag /\ prefix_bool, path |-> format(prefix, found[i].path)]]
        ELSE found

InitPlanner ==
    /\ PagingIdle /\ IdleBut("planner")
    /\ root_model = "Film"
    /\ field_ast = [name |-> "films", sel |-> <<>>]
    /\ related = NotPlanned

\* the query the client writes selects one more field
SelectField ==
    /\ related = NotPlanned
    /\ Size(field_ast) < MaxNodes
    /\ \E q \in Places(field_ast), nm \in FieldNames : field_ast' = Select(field_ast, q, nm)
    /\ UNCHANGED <<but_planner, root_model, related>>

\* related += cls._search_related(ast, queryset.model)
SearchRelated ==
    /\ related = NotPlanned
    /\ related' = _search_related(field_ast, root_model, "", TRUE)
    /\ UNCHANGED <<but_planner, field_ast, root_model>>

NextPlanner == SelectField \/ SearchRelated
SpecPlanner == InitPlanner /\ [][NextPlanner]_vars

\* ------------------------------------------------ the websocket consumer
MaxUpTo == 2
MaxEvents == 2

\* a message of the client, as json.loads(message["text"]) reads it
Msg(type, id, op, up_to) == [type |-> type, id |-> id, op |-> op, up_to |-> up_to]
\* a frame handed to base_send; a text frame carries type, id and payload
Frame(kind, type, id, payload) == [frame |-> kind, type |-> type, id |-> id, payload |-> payload]
AcceptFrame == Frame("websocket.accept", "", None, <<"graphql-ws">>)
AckFrame == Frame("websocket.send", "connection_ack", None, <<"uuid">>)
CloseFrame == Frame("websocket.close", "", None, <<"1000">>)

\* the payload data of the results: {'hello': 'hello world'}, {'count': i},
\* {'hello': event['message']}
HelloWorld == <<"hello", "hello world">>
CountData(n) == <<"count">> \o DecDigitsOf(n)
EventData(e) == <<"hello", "hello-subsc">> \o DecDigitsOf(e)

\* ensure_future with the newest coroutine run first
ensure_future_newest_first(tasks, coro) == <<coro>> \o tasks

\* ensure_future(coro): the loop runs its tasks in the order they were scheduled
ensure_future(tasks, coro) == Append(tasks, coro)

\* AsyncWebsocketConsumer._send
_send(tasks, _id, type, payload) ==
    ensure_future(tasks, Frame("websocket.send", type, _id, payload))

\* ObserverBase.on_next / on_completed: nothing once the observer is stopped
on_next(tasks, sub, _id, payload) ==
    IF sub.disposed THEN tasks ELSE _send(tasks, _id, "data", payload)
on_completed(tasks, sub, _id) ==
    IF sub.disposed THEN tasks ELSE _send(tasks, _id, "complete", <<>>)

\* disposable.dispose(): the observer stops and the task is cancelled
dispose(sub) ==
    [sub EXCEPT !.disposed = TRUE,
                !.task = IF @ \in {"pending", "running"} THEN "cancelled" ELSE @]

InitSocket == PagingIdle /\ IdleBut("socket") /\ SocketIdle

\* communicator.connect() sends websocket.connect
Connect ==
    /\ phase = "new"
    /\ phase' = "connecting"
    /\ inbox' = Append(inbox, Msg("websocket.connect", None, "", 0))
    /\ UNCHANGED <<but_socket, consumer, ready, wire, client_read, asked, stop_sent, subs,
                   disposable_map, channel, window, group_sent>>

\* ... and returns with the first frame of the consumer, the accept
ConnectReturns ==
    /\ phase = "connecting"
    /\ client_read < Len(wire)
    /\ wire[client_read + 1].frame = "websocket.accept"
    /\ phase' = "open"
    /\ client_read' = client_read + 1
    /\ UNCHANGED <<but_socket, consumer, inbox, ready, wire, asked, stop_sent, subs,
                   disposable_map, channel, window, group_sent>>

SendInit ==
    /\ phase = "open"
    /\ phase' = "inited"
    /\ inbox' = Append(inbox, Msg("connection_init", None, "", 0))
    /\ UNCHANGED <<but_socket, consumer, ready, wire, client_read, asked, stop_sent, subs,
                   disposable_map, channel, window, group_sent>>

\* the ids the client has started an operation under
IdsAsked == {asked[k].id : k \in {j \in Starts : asked[j].at # None}}
\* the start messages the consumer has handled
Started == Cardinality({k \in Starts : asked[k].at # None})
           - Cardinality({j \in 1..Len(inbox) : inbox[j].type = "start"})

\* the client starts an operation, under an id it has used before or under the
\* next id it has not used yet
SendStart ==
    /\ phase = "inited"
    /\ \E k \in Starts, i \in Ids, op \in {"query", "count", "hello"}, n \in 0..MaxUpTo :
        /\ asked[k].at = None
        /\ \A j \in Starts : j < k => asked[j].at # None
        /\ \A j \in Ids : j < i => j \in IdsAsked
        /\ op # "count" => n = 0
        /\ asked' = [asked EXCEPT ![k] = [at |-> client_read, id |-> i, op |-> op,
                                          up_to |-> n]]
        /\ inbox' = Append(inbox, Msg("start", i, op, n))
    /\ UNCHANGED <<but_socket, phase, consumer, ready, wire, client_read, stop_sent, subs,
                   disposable_map, channel, window, group_sent>>

SendStop ==
    /\ phase = "inited"
    /\ \E i \in IdsAsked \ stop_sent :
        /\ stop_sent' = stop_sent \cup {i}
        /\ inbox' = Append(inbox, Msg("stop", i, "", 0))
    /\ UNCHANGED <<but_socket, phase, consumer, ready, wire, client_read, asked, subs,
                   disposable_map, channel, window, group_sent>>

\* communicator.receive_from(): the next frame of the consumer
ReceiveFrom ==
    /\ phase \in {"open", "inited"}
    /\ client_read < Len(wire)
    /\ client_read' = client_read + 1
    /\ UNCHANGED <<but_socket, phase, consumer, inbox, ready, wire, asked, stop_sent, subs,
                   disposable_map, channel, window, group_sent>>

Disconnect ==
    /\ phase = "inited"
    /\ phase' = "closed"
    /\ inbox' = Append(inbox, Msg("websocket.disconnect", None, "", 0))
    /\ UNCHANGED <<but_socket, consumer, ready, wire, client_read, asked, stop_sent, subs,
                   disposable_map, channel, window, group_sent>>

\* channel_layer.group_send("hello-group", event): the event is queued on every
\* channel of the group
GroupSend ==
    /\ group_sent < MaxEvents
    /\ group_sent' = group_sent + 1
    /\ channel' = [k \in Starts |-> IF subs[k].joined THEN Append(channel[k], group_sent + 1)
                                    ELSE channel[k]]
    /\ window' = [k \in Starts |-> IF subs[k].joined /\ ~subs[k].disposed
                                   THEN Append(window[k], group_sent + 1)
                                   ELSE window[k]]
    /\ UNCHANGED <<but_socket, phase, consumer, inbox, ready, wire, client_read, asked,
                   stop_sent, subs, disposable_map>>

websocket_connect ==
    /\ consumer = "running"
    /\ inbox # <<>> /\ Head(inbox).type = "websocket.connect"
    /\ inbox' = Tail(inbox)
    /\ wire' = wire \o <<AcceptFrame, AckFrame>>
    /\ UNCHANGED <<but_socket, phase, consumer, ready, client_read, asked, stop_sent, subs,
                   disposable_map, channel, window, group_sent>>

websocket_receive ==
    /\ consumer = "running"
    /\ inbox # <<>>
    /\ Head(inbox).type \in {"connection_init", "start", "stop"}
    /\ inbox' = Tail(inbox)
    /\ LET request == Head(inbox)
           _id == request.id
       IN  CASE request.type = "connection_init" ->
                    UNCHANGED <<ready, subs, disposable_map>>
             [] request.type = "start" /\ request.op = "query" ->
                    /\ ready' = _send(ready, _id, "data", HelloWorld)
                    /\ UNCHANGED <<subs, disposable_map>>
             [] request.type = "start" /\ request.op # "query" ->
                    /\ subs' = [subs EXCEPT ![Started + 1] =
                                    [NoSub EXCEPT !.op = request.op, !.up_to = request.up_to,
                                                  !.task = "pending"]]
                    /\ disposable_map' = [disposable_map EXCEPT ![_id] = Started + 1]
                    /\ UNCHANGED ready
             [] request.type = "stop" ->
                    /\ subs' = IF disposable_map[_id] # 0
                               THEN [subs EXCEPT ![disposable_map[_id]] = dispose(@)]
                               ELSE subs
                    /\ UNCHANGED <<ready, disposable_map>>
    /\ UNCHANGED <<but_socket, phase, consumer, wire, client_read, asked, stop_sent,
                   channel, window, group_sent>>

websocket_disconnect ==
    /\ consumer = "running"
    /\ inbox # <<>> /\ Head(inbox).type = "websocket.disconnect"
    /\ inbox' = Tail(inbox)
    /\ wire' = Append(wire, CloseFrame)
    /\ subs' = [k \in Starts |-> IF \E i \in Ids : disposable_map[i] = k
                                 THEN dispose(subs[k]) ELSE subs[k]]
    /\ disposable_map' = [i \in Ids |-> 0]
    /\ consumer' = "stopped"
    /\ UNCHANGED <<but_socket, phase, ready, client_read, asked, stop_sent,
                   channel, window, group_sent>>

\* the event loop runs the oldest send task: super().send(data)
RunSend ==
    /\ ready # <<>>
    /\ wire' = Append(wire, Head(ready))
    /\ ready' = Tail(ready)
    /\ UNCHANGED <<but_socket, phase, consumer, inbox, client_read, asked, stop_sent, subs,
                   disposable_map, channel, window, group_sent>>

\* iterate_asyncgen: one turn of async for over the source, on_completed at its end
Iterate ==
    /\ \E k \in Starts :
        /\ subs[k].op = "count"
        /\ subs[k].task \in {"pending", "running"}
        /\ IF subs[k].counter < subs[k].up_to
           THEN /\ ready' = on_next(ready, subs[k], asked[k].id, CountData(subs[k].counter))
                /\ subs' = [subs EXCEPT ![k].counter = @ + 1, ![k].task = "running"]
           ELSE /\ ready' = on_completed(ready, subs[k], asked[k].id)
                /\ subs' = [subs EXCEPT ![k].task = "done"]
    /\ UNCHANGED <<but_socket, phase, consumer, inbox, wire, client_read, asked, stop_sent,
                   disposable_map, channel, window, group_sent>>

\* ChannelGroupObservable.dispatch up to group_add
GroupAdd ==
    /\ \E k \in Starts :
        /\ subs[k].op = "hello"
        /\ subs[k].task = "pending"
        /\ subs' = [subs EXCEPT ![k].task = "running", ![k].joined = TRUE]
    /\ UNCHANGED <<but_socket, phase, consumer, inbox, ready, wire, client_read, asked,
                   stop_sent, disposable_map, channel, window, group_sent>>

\* await channel_receive()
ChannelReceive ==
    /\ \E k \in Starts :
        /\ subs[k].op = "hello"
        /\ subs[k].task = "running"
        /\ subs[k].holding = 0
        /\ channel[k] # <<>>
        /\ subs' = [subs EXCEPT ![k].holding = Head(channel[k])]
        /\ channel' = [channel EXCEPT ![k] = Tail(@)]
    /\ UNCHANGED <<but_socket, phase, consumer, inbox, ready, wire, client_read, asked,
                   stop_sent, disposable_map, window, group_sent>>

\* _event_dispatch_sync: observer.on_next(event), in a worker thread
EventDispatch ==
    /\ \E k \in Starts :
        /\ subs[k].op = "hello"
        /\ subs[k].holding # 0
        /\ ready' = on_next(ready, subs[k], asked[k].id, EventData(subs[k].holding))
        /\ subs' = [subs EXCEPT ![k].holding = 0]
    /\ UNCHANGED <<but_socket, phase, consumer, inbox, wire, client_read, asked, stop_sent,
                   disposable_map, channel, window, group_sent>>

\* the finally of dispatch, after the task was cancelled: group_discard
GroupDiscard ==
    /\ \E k \in Starts :
        /\ subs[k].op = "hello"
        /\ subs[k].task = "cancelled"
        /\ subs[k].joined
        /\ subs' = [subs EXCEPT ![k].joined = FALSE]
    /\ UNCHANGED <<but_socket, phase, consumer, inbox, ready, wire, client_read, asked,
                   stop_sent, disposable_map, channel, window, group_sent>>

NextSocket ==
    \/ Connect \/ ConnectReturns \/ SendInit \/ SendStart \/ SendStop \/ ReceiveFrom
    \/ Disconnect \/ GroupSend
    \/ websocket_connect \/ websocket_receive \/ websocket_disconnect
    \/ RunSend \/ Iterate \/ GroupAdd \/ ChannelReceive \/ EventDispatch \/ GroupDiscard

SpecSocket == InitSocket /\ [][NextSocket]_vars

\* ------------------------------------------------- the model mutations
MaxPets == 2
MaxCalls == 2

\* Pet rows: name and age, both required by the model form
PetNames == {"Mia", "Rex"}
PetAges == {10}
NoPet == [pk |-> None, name |-> "", age |-> None]

\* a relay global id, base64 of "TypeName:id", as the pair it encodes
NoGid == [type |-> "", id |-> <<>>]
to_global_id(type, pk) == [type |-> type, id |-> IF pk = None THEN NoneStr ELSE DecDigitsOf(pk)]
from_global_id(gid) == <<gid.type, gid.id>>
GlobalIds == {to_global_id(t, pk) : t \in {"PetType", "FilmType"}, pk \in 1..(MaxPets + 1)}

\* the input of a mutation: the keys the client supplied and their values
ExtraKeys == {"form_prefix", "client_mutation_id"}
Input(keys, id, name, age) == [keys |-> keys, id |-> id, name |-> name, age |-> age]
\* what a mutation returns: an exception that leaves the resolver, or a payload
\* with the keys of its errors, the pk of its object and its deleted_id
Response(raised, errors, obj, deleted_id) ==
    [raised |-> raised, errors |-> errors, obj |-> obj, deleted_id |-> deleted_id]
Outcome(tbl, npk, response) == [pets |-> tbl, next_pk |-> npk, response |-> response]

\* model._default_manager.get(pk=pk): the rows whose pk is that number
get_pk(tbl, id) == {r \in tbl : DecDigitsOf(r.pk) = id}
\* model.objects.filter(**data) on the model's fields among the keys of data
filter_by(tbl, keys, input) ==
    {r \in tbl : /\ "name" \in keys => r.name = input.name
                 /\ "age" \in keys => r.age = input.age}

\* BaseDjangoFormMutation.get_form_kwargs: form_prefix and id leave the data;
\* a truthy id is resolved to the instance by the second part of the global id
get_form_kwargs(tbl, input) ==
    LET data == input.keys \ {"form_prefix", "id"}
        found == get_pk(tbl, from_global_id(input.id)[2])
    IN  IF "id" \in input.keys /\ input.id # NoGid
        THEN IF found = {}
             THEN [exc |-> "ValidationError", data |-> data, instance |-> NoPet]
             ELSE [exc |-> "", data |-> data, instance |-> CHOOSE r \in found : TRUE]
        ELSE [exc |-> "", data |-> data, instance |-> NoPet]

\* the fields of the form class: DjangoUpdateModelMutation.get_form_class
\* builds a form of the supplied fields when every key but id is an input
\* field of the model form, and falls back to the full form otherwise
get_form_class(kind, input) ==
    IF kind = "update"
    THEN LET fields == input.keys \ {"id"}
         IN  IF fields \ {"name", "age", "id"} = {} THEN fields ELSE {"name", "age"}
    ELSE IF kind = "delete" THEN {} ELSE {"name", "age"}

\* form.errors: every field of the form is required
form_errors(fields, data) == {f \in fields : f \notin data}

\* form.save(): the form's fields are written to its instance
save(instance, fields, input) ==
    [instance EXCEPT !.name = IF "name" \in fields THEN input.name ELSE @,
                     !.age = IF "age" \in fields THEN input.age ELSE @]

\* DjangoCreateModelMutation.perform_mutate: obj = form.save()
perform_mutate(tbl, npk, kw, fields, input) ==
    IF kw.instance = NoPet
    THEN LET obj == save([NoPet EXCEPT !.pk = npk], fields, input)
         IN  Outcome(tbl \cup {obj}, npk + 1, Response("", {}, obj.pk, NoGid))
    ELSE LET obj == save(kw.instance, fields, input)
         IN  Outcome((tbl \ {kw.instance}) \cup {obj}, npk, Response("", {}, obj.pk, NoGid))

\* DjangoDeleteModelMutation.perform_mutate
delete_perform_mutate(tbl, npk, kw) ==
    LET gid == to_global_id("PetType", kw.instance.pk)
    IN  Outcome(tbl \ {kw.instance}, npk, Response("", {}, None, gid))

\* DjangoGetOrCreateModelMutation.mutate_and_get_payload
get_or_create(tbl, npk, input) ==
    LET kw == get_form_kwargs(tbl, input)
        fields == get_form_class("get_or_create", input)
        errors == form_errors(fields, kw.data)
        found == filter_by(tbl, kw.data, input)
    IN  IF errors # {} THEN Outcome(tbl, npk, Response("", errors, None, NoGid))
        ELSE IF kw.data \ {"name", "age"} # {}
        THEN Outcome(tbl, npk, Response("FieldError", {}, None, NoGid))
        ELSE IF Cardinality(found) > 1
        THEN Outcome(tbl, npk, Response("MultipleObjectsReturned", {}, None, NoGid))
        ELSE IF Cardinality(found) = 1
        THEN Outcome(tbl, npk, Response("", {}, (CHOOSE r \in found : TRUE).pk, NoGid))
        ELSE perform_mutate(tbl, npk, kw, fields, input)

\* BaseDjangoFormMutation.mutate_and_get_payload with get_form, for the update
\* and the delete mutation
mutate_and_get_payload(kind, tbl, npk, input) ==
    LET kw == get_form_kwargs(tbl, input)
        fields == get_form_class(kind, input)
        errors == form_errors(fields, kw.data)
    IN  IF kw.exc # "" THEN Outcome(tbl, npk, Response("", {"__all__"}, None, NoGid))
        ELSE IF errors # {} THEN Outcome(tbl, npk, Response("", errors, None, NoGid))
        ELSE IF kind = "delete" THEN delete_perform_mutate(tbl, npk, kw)
        ELSE perform_mutate(tbl, npk, kw, fields, input)

Call(kind, input, out) ==
    [kind |-> kind, input |-> input, before |-> pets, after |-> out.pets,
     response |-> out.response]
Execute(kind, input, out) ==
    /\ Len(calls) < MaxCalls
    /\ out.next_pk <= MaxPets + 1
    /\ pets' = out.pets
    /\ next_pk' = out.next_pk
    /\ calls' = Append(calls, Call(kind, input, out))
    /\ UNCHANGED but_mutations

InitMutations == PagingIdle /\ IdleBut("mutations") /\ MutationsIdle

\* Pet.objects.create(name=..., age=...) before the mutations run
CreatePet ==
    /\ calls = <<>>
    /\ next_pk <= MaxPets
    /\ \E name \in PetNames, age \in PetAges :
        pets' = pets \cup {[pk |-> next_pk, name |-> name, age |-> age]}
    /\ next_pk' = next_pk + 1
    /\ UNCHANGED <<but_mutations, calls>>

PetGetOrCreate ==
    \E name \in PetNames, age \in PetAges, extra \in SUBSET ExtraKeys :
        LET input == Input({"name", "age"} \cup extra, NoGid, name, age)
        IN  Execute("get_or_create", input, get_or_create(pets, next_pk, input))

PetMutation ==
    \E id \in GlobalIds, supplied \in SUBSET {"name", "age"}, name \in PetNames,
       age \in PetAges, extra \in SUBSET ExtraKeys :
        /\ "name" \notin supplied => name = "Mia"
        /\ LET input == Input({"id"} \cup supplied \cup extra, id, name, age)
           IN  Execute("update", input, mutate_and_get_payload("update", pets, next_pk, input))

PetDelete ==
    \E id \in GlobalIds, extra \in SUBSET ExtraKeys :
        LET input == Input({"id"} \cup extra, id, "", None)
        IN  Execute("delete", input, mutate_and_get_payload("delete", pets, next_pk, input))

NextMutations == CreatePet \/ PetGetOrCreate \/ PetMutation \/ PetDelete

SpecMutations == InitMutations /\ [][NextMutations]_vars

\* ------------------------------------------------- MultipleOrderingFilter
max_conbination == 3
MaxItems == 2
\* fields=(('age', 'age'), ('pk', 'pk')): the parameters and the model fields they name
FilterFields == {F_age, F_pk}
param_map(param) == param

\* OrderingFilter.build_choices: every parameter, ascending and descending
BaseChoices == FilterFields \cup {<<"-">> \o f : f \in FilterFields}
\* the combinations of i choices no two of which name the same field
Combinations(i) ==
    {j \in [1..i -> BaseChoices] :
        \A a, b \in 1..i : a # b => FieldOf(j[a]) # FieldOf(j[b])}
RECURSIVE JoinComma(_)
JoinComma(pieces) ==
    IF Len(pieces) = 1 THEN pieces[1] ELSE pieces[1] \o <<",">> \o JoinComma(Tail(pieces))
\* MultipleOrderingFilter.build_choices: the choices and their comma-joined combinations
build_choices ==
    BaseChoices
    \cup {JoinComma(j) :
            j \in UNION {Combinations(i) :
                            i \in 2..(Min(Cardinality(BaseChoices) + 1, max_conbination) - 1)}}

\* OrderingFilter.get_ordering_value: the model field behind a parameter
get_ordering_value(param) ==
    IF startswith_minus(param) THEN <<"-">> \o param_map(Tail(param)) ELSE param_map(param)

\* MultipleOrderingFilter.filter: every element is split at its commas and the
\* queryset ordered by the fields of the pieces
ordering_filter(value) ==
    LET pieces == Flatten([i \in 1..Len(value) |-> split(value[i], <<>>)])
    IN  [i \in 1..Len(pieces) |-> get_ordering_value(pieces[i])]

\* the orderBy arguments the filter accepts: lists of its choices
InitOrdFilter ==
    /\ PagingIdle /\ IdleBut("ordfilter")
    /\ order_by_value \in UNION {[1..n -> build_choices] : n \in 1..MaxItems}
    /\ filter_ordering = NotDerived /\ resolver_order_by = NotDerived

\* the filterset orders the queryset
FilterQueryset ==
    /\ filter_ordering = NotDerived
    /\ filter_ordering' = ordering_filter(order_by_value)
    /\ UNCHANGED <<but_ordfilter, order_by_value, resolver_order_by>>

\* connection_from_queryset derives order_by from the same argument
ResolverOrderBy ==
    /\ resolver_order_by = NotDerived
    /\ resolver_order_by' =
           derive_order_by([kind |-> "list", str |-> <<>>, list |-> order_by_value], Missing)
    /\ UNCHANGED <<but_ordfilter, order_by_value, filter_ordering>>

NextOrdFilter == FilterQueryset \/ ResolverOrderBy
SpecOrdFilter == InitOrdFilter /\ [][NextOrdFilter]_vars

\* --------------------------------- get-or-create mutations run concurrently
MaxProcs == 2
Procs == 1..MaxProcs
Waiting == [at |-> "get", response |-> Response("", {}, None, NoGid)]

\* the requests arrive together: each worker runs mutate_and_get_payload on the
\* same valid input, against a table that may hold other pets
InitRace ==
    /\ PagingIdle /\ IdleBut("racers")
    /\ pets \in SUBSET [pk : 1..MaxPets, name : PetNames, age : PetAges]
    /\ \A r, q \in pets : r.pk = q.pk => r = q
    /\ next_pk = MaxPets + 1
    /\ calls = <<>>
    /\ \E name \in PetNames, age \in PetAges :
        race = [input |-> Input({"name", "age"}, NoGid, name, age), before |-> pets,
                procs |-> [p \in Procs |-> Waiting]]

\* obj = cls._meta.model.objects.get(**form.data); return cls.create_result(form, info, obj)
RaceGet(p) ==
    /\ race.procs[p].at = "get"
    /\ LET kw == get_form_kwargs(pets, race.input)
           found == filter_by(pets, kw.data, race.input)
       IN  race' = [race EXCEPT !.procs[p] =
                IF Cardinality(found) > 1
                THEN [at |-> "done", response |-> Response("MultipleObjectsReturned", {}, None, NoGid)]
                ELSE IF Cardinality(found) = 1
                THEN [at |-> "done",
                      response |-> Response("", {}, (CHOOSE r \in found : TRUE).pk, NoGid)]
                ELSE [at |-> "save", response |-> @.response]]
    /\ UNCHANGED <<but_racers, mutations>>

\* except DoesNotExist: pass; return cls.perform_mutate(form, info)
RaceSave(p) ==
    /\ race.procs[p].at = "save"
    /\ LET kw == get_form_kwargs(pets, race.input)
           out == perform_mutate(pets, next_pk, kw, get_form_class("get_or_create", race.input),
                                 race.input)
       IN  /\ pets' = out.pets
           /\ next_pk' = out.next_pk
           /\ race' = [race EXCEPT !.procs[p] = [at |-> "done", response |-> out.response]]
    /\ UNCHANGED <<but_racers, calls>>

NextRace == \E p \in Procs : RaceGet(p) \/ RaceSave(p)
SpecRace == InitRace /\ [][NextRace]_vars

\* ------------------------------------------- writes between the requests
\* a traversal under a total order, on a table other processes write between
\* the client's requests
InitBetween ==
    /\ table \in Tables
    /\ db \in {"sqlite", "postgresql"} /\ tie_desc = FALSE /\ flt = None
    /\ order_by \in {o \in OrderSpecs : EndsWithPk(o)}
    /\ max_limit = None /\ enforce_first_or_last = FALSE
    /\ pc = "idle" /\ args = NoArgs
    /\ before = NoRow /\ after = NoRow
    /\ has_next_page = FALSE /\ has_previous_page = FALSE
    /\ low_mark = 0 /\ high_mark = None /\ index = None
    /\ edges = <<>> /\ outcome = "none" /\ error = NoError
    /\ trav = FALSE /\ got = <<>> /\ changes = 0 /\ snaps = {table}
    /\ present = table /\ used = table
    /\ IdleBut("history")

\* the client holds a page and has not sent its next request
BetweenRequests == pc = "done" /\ trav /\ outcome = "page" /\ has_next_page
\* the record the client's next request is anchored at
Anchor == {r \in table : instance_to_cursor(r) = end_cursor(edges)}

\* another process inserts a row under a primary key never used before
InsertBetween ==
    /\ BetweenRequests
    /\ changes < MaxChanges
    /\ \E r \in Rows :
        /\ \A u \in used : u.pk # r.pk
        /\ table' = table \cup {r}
        /\ snaps' = snaps \cup {table \cup {r}}
        /\ used' = used \cup {r}
    /\ changes' = changes + 1
    /\ UNCHANGED <<db, tie_desc, flt, order_by, max_limit, enforce_first_or_last, but_history,
                   present, pc, args, frame, trav, got>>

\* another process deletes a row other than the anchor
DeleteBetween ==
    /\ BetweenRequests
    /\ changes < MaxChanges
    /\ \E r \in table \ Anchor :
        /\ table' = table \ {r}
        /\ snaps' = snaps \cup {table \ {r}}
        /\ present' = present \ {r}
    /\ changes' = changes + 1
    /\ UNCHANGED <<db, tie_desc, flt, order_by, max_limit, enforce_first_or_last, but_history,
                   used, pc, args, frame, trav, got>>

\* the traversing client sends first and after only
NextBetween ==
    \/ Traverse \/ ResolveAfter \/ ApplyFirst \/ BuildEdges \/ NextPage
    \/ InsertBetween \/ DeleteBetween
SpecBetween == InitBetween /\ [][NextBetween]_vars

\* --------------------------------------------------- split_query by itself
\* queryset.reverse(): every direction of the ordering is turned round
reverse(order_by_) ==
    [i \in 1..Len(order_by_) |->
        IF startswith_minus(order_by_[i]) THEN Tail(order_by_[i]) ELSE <<"-">> \o order_by_[i]]

\* the queryset handed to split_query: the table, or the table filtered on age
SplitQueryset == IF sp_filtered THEN {r \in sp_table : r.age = 1} ELSE sp_table

\* split_query with what it raises
split_query_result(queryset, order_by_, instance) ==
    IF SplitRaises(order_by_, instance) # ""
    THEN [exc |-> SplitRaises(order_by_, instance), before |-> {}, after |-> {}]
    ELSE [exc |-> "",
          before |-> split_query(queryset, order_by_, instance)[1],
          after |-> split_query(queryset, order_by_, instance)[2]]

\* get_before_and_after_cursor: the last row of qs_before and the first of
\* qs_after, of the model's whole table under order_by
get_before_and_after_cursor(tbl, order_by_, instance, backend, tie) ==
    LET r == split_query_result(tbl, order_by_, instance)
        qs_before == Ordered(r.before, reverse(order_by_), backend, tie)
        qs_after == Ordered(r.after, order_by_, backend, tie)
    IN  IF r.exc # "" THEN [exc |-> r.exc, before |-> NoneStr, after |-> NoneStr]
        ELSE [exc |-> "",
              before |-> IF qs_before # <<>> THEN instance_to_cursor(qs_before[1]) ELSE NoneStr,
              after |-> IF qs_after # <<>> THEN instance_to_cursor(qs_after[1]) ELSE NoneStr]

InitSplit ==
    /\ PagingIdle /\ IdleBut("splitter")
    /\ sp_table \in Tables
    /\ sp_instance \in sp_table
    /\ sp_filtered \in BOOLEAN
    /\ sp_order_by \in OrderSpecs
    /\ sp_db \in {"sqlite", "postgresql"}
    /\ sp_tie \in BOOLEAN
    /\ sp_parts = NotSplit /\ sp_cursors = NotNamed

SplitQuery ==
    /\ sp_parts = NotSplit
    /\ sp_parts' = split_query_result(SplitQueryset, sp_order_by, sp_instance)
    /\ UNCHANGED <<but_splitter, sp_table, sp_filtered, sp_order_by, sp_instance, sp_db,
                   sp_tie, sp_cursors>>

GetBeforeAndAfterCursor ==
    /\ sp_cursors = NotNamed
    /\ sp_cursors' = get_before_and_after_cursor(sp_table, sp_order_by, sp_instance, sp_db, sp_tie)
    /\ UNCHANGED <<but_splitter, sp_table, sp_filtered, sp_order_by, sp_instance, sp_db,
                   sp_tie, sp_parts>>

NextSplit == SplitQuery \/ GetBeforeAndAfterCursor
SpecSplit == InitSplit /\ [][NextSplit]_vars

\* ------------------------------------------------------------ vocabulary
\* what the request resolved to
Result ==
    [outcome |-> outcome, error |-> error, edges |-> edges,
     has_next_page |-> has_next_page, has_previous_page |-> has_previous_page]

Failure(e) ==
    [outcome |-> "error", error |-> e, edges |-> <<>>,
     has_next_page |-> FALSE, has_previous_page |-> FALSE]

\* connection_resolver run from its first line to its last on one table
ResolveOn(tbl, a) ==
    LET e == ResolverCheck(a.first, a.last, max_limit, enforce_first_or_last)
        rb == cursor_to_instance(tbl, a.before)
        ra == cursor_to_instance(tbl, a.after)
        qs == Queryset(tbl, rb.instance, ra.instance)
        idx == IF IsInt(a.last) THEN TailIndex(qs, a.first, a.last) ELSE None
    IN  IF e # NoError THEN Failure(e)
        ELSE IF rb.exc # "" THEN Failure(Raised(rb.exc))
        ELSE IF ra.exc # "" THEN Failure(Raised(ra.exc))
        ELSE IF SplitsRaise(rb.instance, ra.instance) # ""
        THEN Failure(Raised(SplitsRaise(rb.instance, ra.instance)))
        ELSE [outcome |-> "page", error |-> NoError,
              edges |-> MakeEdges(Slice(qs, IF IsInt(a.last) THEN LowMark(idx, a.first) ELSE 0,
                                        a.first)),
              has_next_page |-> IF IsInt(a.first) THEN ExistsBeyond(qs, a.first)
                                ELSE rb.instance # NoRow,
              has_previous_page |-> IF IsInt(a.last) THEN ExistsBelow(qs, idx, a.first)
                                    ELSE ra.instance # NoRow]

\* the collection the field pages over, in the order the database returns it
Collection == Ordered(Iterable(table), order_by, db, tie_desc)
Pks(rows) == [i \in 1..Len(rows) |-> rows[i].pk]

\* order_by leaves no two rows of S equal (two NULLs compare equal): the order
\* the database returns S in is then total
NoTies(S) ==
    \A r, s \in S : r # s =>
        \E i \in 1..Len(order_by) :
            getattr(r, FieldOf(order_by[i])) # getattr(s, FieldOf(order_by[i]))

\* the same, and every ordering value of every row of S is there to compare
TotalOn(S) ==
    /\ \A r \in S : \A i \in 1..Len(order_by) : getattr(r, FieldOf(order_by[i])) # None
    /\ NoTies(S)

Finished == pc = "done"
\* nobody wrote the table while the request was resolved
Quiet == snaps = {table}

\* the steps of the resolver agree with the resolver run in one piece
StepsAgree == (Finished /\ Quiet /\ ~trav) => Result = ResolveOn(table, args)

\* ------------------------------------------------------------------ C1
\* a traversal by first=k and after=endCursor, on a table nobody writes, with a
\* page size the field accepts
Traversing ==
    /\ trav /\ Finished /\ changes = 0
    /\ ResolverCheck(args.first, args.last, max_limit, enforce_first_or_last) = NoError

\* at the end of every request the client has received a prefix of the
\* collection in collection order, each record once; every page but the last
\* holds k records, a page that reports hasNextPage holds k records and leaves
\* records to come, and the page that reports hasNextPage=false completes the
\* collection
ReceivedInOrder ==
    LET received == Flatten(got) \o NodePks(edges)
        all == Pks(Collection)
    IN  /\ outcome = "page"
        /\ Len(received) <= Len(all)
        /\ received = SubSeq(all, 1, Len(received))
        /\ \A i \in 1..Len(got) : Len(got[i]) = args.first
        /\ Len(edges) <= args.first
        /\ has_next_page => (Len(edges) = args.first /\ Len(received) < Len(all))
        /\ ~has_next_page => received = all

\* C1: on an unchanged collection under a total order, a client that asks for
\* first=k (k >= 1) and then for first=k after the previous endCursor while
\* hasNextPage is true receives every record of the collection exactly once,
\* in collection order, k records per page except possibly the last, and the
\* final page reports hasNextPage=false.
C1_ForwardTraversal ==
    (Traversing /\ NoTies(Iterable(table))) => ReceivedInOrder

\* the traversal is complete and in order where no ordering value is NULL
ForwardTraversalWithoutNull ==
    (Traversing /\ TotalOn(Iterable(table))) => ReceivedInOrder

\* a traversal of three pages ends on a short last page, under an ordering on two fields
C1_Witness ==
    /\ trav /\ Finished /\ outcome = "page" /\ ~has_next_page
    /\ TotalOn(Iterable(table)) /\ Len(order_by) = 2
    /\ Len(got) = 2 /\ args.first = 1 /\ Len(edges) = 1

\* a traversal with pages of two ends on a page of one
C1_WitnessShortPage ==
    /\ trav /\ Finished /\ outcome = "page" /\ ~has_next_page
    /\ Len(got) = 1 /\ args.first = 2 /\ Len(edges) = 1

\* --------------------------------------------------------------- C2..C4
OverLimit(n) == Truthy(max_limit) /\ IsInt(n) /\ n > max_limit
NoPage == Finished /\ outcome = "error" /\ edges = <<>>

\* C2: when a maximum page size is configured, every request whose first is
\* greater than the maximum, and every request whose last is greater than the
\* maximum, fails with an error that names the field, the requested count (the
\* first or the last that is too large) and the maximum; no page is returned.
C2_LimitExceeded ==
    (pc # "idle" /\ (OverLimit(args.first) \/ OverLimit(args.last)))
    => /\ NoPage
       /\ error.exc = "AssertionError"
       /\ error.field = field_name
       /\ error.max = max_limit
       /\ \/ error.text = "exceeds the first limit" /\ error.requested = args.first
                /\ OverLimit(args.first)
          \/ error.text = "exceeds the last limit" /\ error.requested = args.last
                /\ OverLimit(args.last)

\* a request whose first is within the limit is refused for its last
C2_Witness ==
    /\ NoPage /\ Truthy(max_limit) /\ Truthy(args.first) /\ args.first <= max_limit
    /\ OverLimit(args.last) /\ error.text = "exceeds the last limit"
    /\ error.requested = args.last

\* C3: when enforce_first_or_last is on, every request that gives neither first
\* nor last fails with the error that asks for a first or last value and names
\* the field; no page is returned.
C3_MustPaginate ==
    (pc # "idle" /\ enforce_first_or_last /\ args.first = None /\ args.last = None)
    => /\ NoPage
       /\ error.exc = "AssertionError"
       /\ error.text = "You must provide a first or last value"
       /\ error.field = field_name

\* such a request is refused also where a maximum is configured and a cursor is given
C3_Witness ==
    /\ NoPage /\ enforce_first_or_last /\ Truthy(max_limit)
    /\ args.first = None /\ args.last = None /\ StrTruthy(args.before)
    /\ error.text = "You must provide a first or last value"

ConfigurationError == outcome = "error" /\ error.text = "set max_limit without first or last"
Unbounded == ~enforce_first_or_last /\ args.first = None /\ args.last = None
WholeCollection == outcome = "page" /\ edges = MakeEdges(Collection)

\* C4 as claimed, for the requests that are not refused for another reason: with
\* enforce_first_or_last off, a request that gives neither first nor last fails
\* with the configuration error exactly when a non-zero maximum is configured,
\* and where none is configured (unset or 0) the page it returns is the whole
\* collection.
C4_AsClaimed ==
    (Finished /\ Quiet /\ Unbounded)
    => /\ ConfigurationError <=> Truthy(max_limit)
       /\ (~Truthy(max_limit) /\ outcome = "page") => WholeCollection

\* C4, amended: with enforce_first_or_last off, a request that gives neither
\* first nor last fails with the configuration error exactly when a non-zero
\* maximum is configured; where none is configured (unset or 0) such a request
\* that gives no before or after cursor either succeeds and returns the whole
\* collection.
C4_Unbounded ==
    (Finished /\ Quiet /\ Unbounded)
    => /\ ConfigurationError <=> Truthy(max_limit)
       /\ (~Truthy(max_limit) /\ ~StrTruthy(args.before) /\ ~StrTruthy(args.after))
              => WholeCollection

\* with max_limit = 0 the request without arguments returns all the rows
C4_Witness ==
    /\ Finished /\ Unbounded /\ max_limit = 0 /\ args.before = NoneStr /\ args.after = NoneStr
    /\ WholeCollection /\ Len(edges) = MaxPk

\* with a maximum configured the same request is refused
C4_WitnessRefused ==
    /\ Finished /\ Unbounded /\ Truthy(max_limit) /\ args.before = NoneStr
    /\ ConfigurationError

\* --------------------------------------------------------------- C5, C6
\* a cursor argument that is given and is not well-formed hex
IllFormed(c) == c # NoneStr /\ ~IntBase16(c).ok
WithoutIllFormed(a) ==
    [a EXCEPT !.before = IF IllFormed(a.before) THEN NoneStr ELSE a.before,
              !.after = IF IllFormed(a.after) THEN NoneStr ELSE a.after]

\* C5: a before or after argument that is not well-formed hex never makes the
\* request fail: the request resolves to what the same request without that
\* argument resolves to.
C5_IllFormedCursorIsAbsent ==
    (Finished /\ Quiet /\ ~trav /\ (IllFormed(args.before) \/ IllFormed(args.after)))
    => Result = ResolveOn(table, WithoutIllFormed(args))

\* C6: for every collection and every configuration of the field, a request
\* with first=0 succeeds and returns zero edges, with hasNextPage true exactly
\* when the collection is not empty.
C6_FirstZero ==
    (Finished /\ Quiet /\ args.first = 0)
    => /\ outcome = "page"
       /\ edges = <<>>
       /\ has_next_page <=> Collection # <<>>

\* --------------------------------------------------------------- C7, C8
\* the last n elements of a sequence, all of them when it holds fewer
LastOf(seq, n) == SubSeq(seq, Max(0, Len(seq) - n) + 1, Len(seq))
\* the part of the collection that remains after the cursors, and after first
AfterCursors == Queryset(table, before, after)
AfterFirst == Slice(AfterCursors, 0, args.first)
\* the rows of the collection that the database returns before row r
Preceding(r) == SelectSeq(Collection, LAMBDA s : RowBefore(s, r, order_by, 1, db, tie_desc))
OnlyLastBefore == before # NoRow /\ after = NoRow /\ args.first = None

TailOfRemaining ==
    /\ edges = MakeEdges(LastOf(AfterFirst, args.last))
    /\ has_previous_page <=> Len(AfterFirst) > args.last

\* C7: with last=N the page holds the final N records (all when fewer exist) of
\* the collection that remains after the cursors and first, in collection
\* order, and hasPreviousPage is true exactly when that remaining collection
\* holds more than N records; in particular last=k with before=cursor(r)
\* returns the k records immediately preceding r (stated for the orderings
\* that leave no two records equal).
C7_Last ==
    (Finished /\ Quiet /\ outcome = "page" /\ IsInt(args.last))
    => /\ TailOfRemaining
       /\ (OnlyLastBefore /\ NoTies(Iterable(table) \cup {before}))
              => edges = MakeEdges(LastOf(Preceding(before), args.last))

\* the same holds where no ordering value is NULL
LastWithoutNull ==
    (Finished /\ Quiet /\ outcome = "page" /\ IsInt(args.last))
    => /\ TailOfRemaining
       /\ (OnlyLastBefore /\ TotalOn(Iterable(table) \cup {before}))
              => edges = MakeEdges(LastOf(Preceding(before), args.last))

\* last=1 before the cursor of a row with two rows in front of it, ordered on two fields
C7_Witness ==
    /\ Finished /\ outcome = "page" /\ args.last = 1 /\ OnlyLastBefore
    /\ TotalOn(Iterable(table) \cup {before}) /\ Len(order_by) = 2
    /\ Len(Preceding(before)) = 2 /\ Len(edges) = 1 /\ has_previous_page

\* last applied to what first left
C7_WitnessAfterFirst ==
    /\ Finished /\ outcome = "page" /\ args.last = 1 /\ args.first = 2
    /\ Len(AfterCursors) = 3 /\ Len(edges) = 1 /\ has_previous_page /\ has_next_page

\* C8 as claimed: with first=N the page holds the first N records (all when
\* fewer exist) of the collection that remains after the cursors, and
\* hasNextPage is true exactly when that remaining collection holds more than N
\* records, whether or not a before cursor was given.
C8_AsClaimed ==
    (Finished /\ Quiet /\ outcome = "page" /\ IsInt(args.first))
    => /\ edges = MakeEdges(Slice(AfterCursors, 0, args.first))
       /\ has_next_page <=> Len(AfterCursors) > args.first

\* C8, amended: with first=N and no last the page holds the first N records (all
\* when fewer exist) of the collection that remains after the cursors; with or
\* without last, hasNextPage is true exactly when that remaining collection
\* holds more than N records, whether or not a before cursor was given.
C8_First ==
    (Finished /\ Quiet /\ outcome = "page" /\ IsInt(args.first))
    => /\ args.last = None => edges = MakeEdges(Slice(AfterCursors, 0, args.first))
       /\ has_next_page <=> Len(AfterCursors) > args.first

\* first with a before cursor that leaves no more than first rows: hasNextPage is false
C8_Witness ==
    /\ Finished /\ outcome = "page" /\ before # NoRow /\ args.first = 2 /\ args.last = None
    /\ Len(edges) = 2 /\ ~has_next_page

\* --------------------------------------------------------------- C9, C10
\* the partitions the cursors exclude: the rows of the queryset that do not
\* sort strictly before the before instance, and those that do not sort
\* strictly after the after instance
SplitAtBefore == IF before # NoRow THEN split_query(Iterable(table), order_by, before)[1]
                 ELSE Iterable(table)
ExcludedByBefore == Iterable(table) \ SplitAtBefore
ExcludedByAfter == SplitAtBefore \ split_query(SplitAtBefore, order_by, after)[2]

\* C9: for a request with a before cursor and no first, hasNextPage is true
\* exactly when the partition excluded by that cursor is not empty; for a
\* request with an after cursor and no last, hasPreviousPage is true exactly
\* when the partition excluded by that cursor is not empty.
C9_FlagsFromPartitions ==
    (Finished /\ Quiet /\ outcome = "page")
    => /\ (before # NoRow /\ args.first = None)
              => (has_next_page <=> ExcludedByBefore # {})
       /\ (after # NoRow /\ args.last = None)
              => (has_previous_page <=> ExcludedByAfter # {})

\* C10: each page is the page of one snapshot: while other processes insert and
\* delete rows, the edges and flags of the page returned are those the resolver
\* computes on the table as it stood at one moment of the request.
C10_OneSnapshot ==
    (Finished /\ outcome = "page") => \E t \in snaps : Result = ResolveOn(t, args)

\* ------------------------------------------------------------------ C11
\* C11: every order specification the resolver pages with is total on the
\* collection: its final field breaks all ties, so that no two distinct records
\* compare equal under it.
C11_OrderIsTotal ==
    (Finished /\ outcome = "page") => NoTies(Iterable(table))

C12_WitnessNegative ==
    /\ decoded # NotDecoded /\ instance_pk = 0 - 26 /\ node_cursor = <<"-", "0", "x", "1", "a">>
    /\ decoded.instance.pk = 0 - 26

\* ------------------------------------------------------------------ C13
\* the pieces joined again with commas between them
RECURSIVE Join(_)
Join(pieces) ==
    IF Len(pieces) = 1 THEN pieces[1]
    ELSE pieces[1] \o <<",">> \o Join(Tail(pieces))

\* order_by is missing, None, an empty string or an empty list
ArgIsEmpty == order_by_arg.str = <<>> /\ order_by_arg.list = <<>>

\* C13: the order specification derived for a request is never empty: a
\* non-empty order_by string is split on commas, a non-empty order_by list is
\* taken as given, an empty or missing order_by falls back to the model's
\* declared ordering, and when that is empty too the specification is the
\* single field pk ascending.
C13_OrderNeverEmpty ==
    derived # NotDerived =>
        /\ derived # <<>>
        /\ (order_by_arg.kind = "str" /\ order_by_arg.str # <<>>) =>
               /\ Join(derived) = order_by_arg.str
               /\ \A i \in 1..Len(derived) : \A j \in 1..Len(derived[i]) : derived[i][j] # ","
        /\ (order_by_arg.kind = "list" /\ order_by_arg.list # <<>>) => derived = order_by_arg.list
        /\ (ArgIsEmpty /\ ordering.list # <<>>) => derived = ordering.list
        /\ (ArgIsEmpty /\ ordering.list = <<>>) => derived = <<F_pk>>

\* "a,-a" became two fields
C13_Witness ==
    /\ order_by_arg = [kind |-> "str", str |-> <<"a", ",", "-", "a">>, list |-> <<>>]
    /\ derived = <<<<"a">>, <<"-", "a">>>>

\* an empty string and a model that declares ordering = [] gave pk
C13_WitnessDefault ==
    /\ order_by_arg = [kind |-> "str", str |-> <<>>, list |-> <<>>]
    /\ ordering = [kind |-> "list", str |-> <<>>, list |-> <<>>]
    /\ derived = <<F_pk>>

\* ------------------------------------------------------------------ C14
\* the fields that stand below a field, directly or through edges -> node
Below(field) ==
    SelectSeq(field.sel, LAMBDA j : j.name # "edges")
    \o Flatten([i \in 1..Len(field.sel) |->
           IF field.sel[i].name # "edges" THEN <<>>
           ELSE Flatten([k \in 1..Len(field.sel[i].sel) |->
                    IF field.sel[i].sel[k].name # "node" THEN <<>>
                    ELSE SelectSeq(field.sel[i].sel[k].sel, LAMBDA j : j.name # "edges")])])

\* the hop names joined by '__'
RECURSIVE JoinHops(_)
JoinHops(hops) ==
    IF Len(hops) = 1 THEN hops ELSE <<hops[1], "__">> \o JoinHops(Tail(hops))

\* one pair for each relation field reachable from a field of a model, walking
\* down with the hops made so far and whether all of them were to-one
RECURSIVE Reachable(_, _, _, _)
Reachable(field, model, hops, all_to_one) ==
    LET below == Below(field)
    IN  Flatten([i \in 1..Len(below) |->
            LET hop == CHOOSE r \in Relations \cup {[on |-> model, name |-> below[i].name,
                                                      f |-> FALSE, m |-> NoModel]} :
                           /\ r.on = model /\ r.name = below[i].name
                           /\ (r.m = NoModel => ~\E x \in Relations :
                                                    x.on = model /\ x.name = below[i].name)
            IN  IF hop.m = NoModel THEN <<>>
                ELSE <<[flag |-> all_to_one /\ hop.f,
                        path |-> JoinHops(Append(hops, hop.name))]>>
                     \o Reachable(below[i], hop.m, Append(hops, hop.name),
                                  all_to_one /\ hop.f)])

\* the same pairs, each as many times
SameBag(a, b) ==
    /\ Len(a) = Len(b)
    /\ \A i \in 1..Len(a) :
           Cardinality({k \in 1..Len(a) : a[k] = a[i]})
               = Cardinality({k \in 1..Len(b) : b[k] = a[i]})

\* C14: for every selection tree, the relation planner returns one (flag, path)
\* pair for each relation field reachable through the selection, directly or
\* through edges -> node, where path is the hop names joined by '__' and flag
\* is true exactly when every hop on the path is a to-one relation.
C14_OnePairPerRelation ==
    related # NotPlanned
        => SameBag(related, Reachable(field_ast, root_model, <<>>, TRUE))

\* no selection set holds edges twice, or node twice below edges
RECURSIVE OneEdges(_)
OneEdges(field) ==
    /\ Cardinality({i \in 1..Len(field.sel) : field.sel[i].name = "edges"}) <= 1
    /\ field.name = "edges"
           => Cardinality({i \in 1..Len(field.sel) : field.sel[i].name = "node"}) <= 1
    /\ \A i \in 1..Len(field.sel) : OneEdges(field.sel[i])

\* the planner is as claimed on the selections that hold edges and node once
PlanOfPlainSelection ==
    (related # NotPlanned /\ OneEdges(field_ast))
        => SameBag(related, Reachable(field_ast, root_model, <<>>, TRUE))

\* films { edges { node { details { film } reporters } } } planned
PlanWitness ==
    /\ related # NotPlanned /\ OneEdges(field_ast) /\ Len(related) = 3
    /\ \E i \in 1..3 : related[i] = [flag |-> TRUE, path |-> <<"details", "__", "film">>]
    /\ \E i \in 1..3 : related[i] = [flag |-> FALSE, path |-> <<"reporters">>]

\* -------------------------------------------------------------- C15..C17
IsPrefix(s, t) == Len(s) <= Len(t) /\ SubSeq(t, 1, Len(s)) = s
\* the text frames that carry id i, oldest first
FramesOf(i, frames) == SelectSeq(frames, LAMBDA f : f.frame = "websocket.send" /\ f.id = i)
\* what the client has received so far
Received == SubSeq(wire, 1, client_read)
\* the id of the k-th start message is the id of no other start message
Unshared(k) == \A j \in Starts \ {k} : asked[j].id # asked[k].id
\* v0..v(n-1) as data messages of id i, then one complete message
CountFrames(i, n) ==
    [k \in 1..n |-> Frame("websocket.send", "data", i, CountData(k - 1))]
    \o <<Frame("websocket.send", "complete", i, <<>>)>>
\* nothing for id i is still on its way to the client
Drained(i) == FramesOf(i, ready) = <<>> /\ client_read = Len(wire)

C16_FirstFrameIsData ==
    \A k \in Starts :
        (/\ asked[k].at # None /\ asked[k].op = "query"
         /\ \A j \in Starts \ {k} : asked[j].at = None
         /\ client_read > asked[k].at)
        => wire[asked[k].at + 1] = Frame("websocket.send", "data", asked[k].id, HelloWorld)

\* a client that received connection_ack before it sent the start message
\* receives the data message first
FirstFrameAfterAck ==
    \A k \in Starts :
        (/\ asked[k].at # None /\ asked[k].op = "query"
         /\ \A j \in Starts \ {k} : asked[j].at = None
         /\ asked[k].at >= 2
         /\ client_read > asked[k].at)
        => wire[asked[k].at + 1] = Frame("websocket.send", "data", asked[k].id, HelloWorld)

\* the data messages for the events, in the order given
EventFrames(i, events) ==
    [k \in 1..Len(events) |-> Frame("websocket.send", "data", i, EventData(events[k]))]
\* the frames of id i sent or scheduled to be sent
Delivered(i) == FramesOf(i, wire \o ready)
\* the dispatch task of the k-th start will hand over no further event
Settled(k) ==
    /\ subs[k].holding = 0
    /\ subs[k].task = "cancelled" \/ channel[k] = <<>>

\* C17: every event sent to the channel group while a subscription on it is
\* active (after group_add, before the subscription is disposed) is delivered
\* as exactly one data message carrying the subscription's id, in the order
\* sent: the messages of id i are always a beginning of the events of its
\* window, and all of them once its dispatch task has nothing left to hand over
\* (i being the id of that subscription alone).
C17_EveryEventDelivered ==
    \A k \in Starts :
        subs[k].op = "hello" /\ Unshared(k) =>
            /\ IsPrefix(Delivered(asked[k].id), EventFrames(asked[k].id, window[k]))
            /\ Settled(k) => Delivered(asked[k].id) = EventFrames(asked[k].id, window[k])

\* no event is delivered twice or out of order, and none is lost while the
\* subscription is not disposed
EventsInOrderUntilDisposed ==
    \A k \in Starts :
        subs[k].op = "hello" /\ Unshared(k) =>
            /\ IsPrefix(Delivered(asked[k].id), EventFrames(asked[k].id, window[k]))
            /\ Settled(k) /\ ~subs[k].disposed =>
                 Delivered(asked[k].id) = EventFrames(asked[k].id, window[k])
EventsWitness ==
    \E k \in Starts :
        /\ subs[k].op = "hello" /\ ~subs[k].disposed /\ Unshared(k)
        /\ Len(window[k]) = MaxEvents
        /\ FramesOf(asked[k].id, Received) = EventFrames(asked[k].id, window[k])

\* -------------------------------------------------------------- C18..C20
\* the calls of one kind of mutation
CallsOf(kind) == {k \in 1..Len(calls) : calls[k].kind = kind}
\* the record a global id names: the Pet of that primary key
NamedBy(tbl, gid) == IF gid.type = "PetType" THEN get_pk(tbl, gid.id) ELSE {}
Matching(tbl, input) == filter_by(tbl, {"name", "age"}, input)

\* what the claim says of one get-or-create call
GetsOrCreates(c) ==
    IF Matching(c.before, c.input) # {}
    THEN /\ c.after = c.before
         /\ c.response.raised = "" /\ c.response.errors = {}
         /\ \E r \in Matching(c.before, c.input) : c.response.obj = r.pk
    ELSE /\ c.response.raised = "" /\ c.response.errors = {}
         /\ \E r \in c.after \ c.before :
                /\ c.after = c.before \cup {r}
                /\ r.name = c.input.name /\ r.age = c.input.age
                /\ c.response.obj = r.pk

\* C18: a get-or-create mutation with valid input returns the existing record
\* and creates nothing when a record matching the submitted data exists, and
\* creates exactly one record otherwise; the same mutation applied twice in
\* sequence leaves exactly one matching record and both calls return the same id.
C18_GetOrCreate ==
    /\ \A k \in CallsOf("get_or_create") : GetsOrCreates(calls[k])
    /\ (/\ Len(calls) = 2 /\ CallsOf("get_or_create") = {1, 2}
        /\ calls[1].input = calls[2].input
        /\ Cardinality(Matching(calls[1].before, calls[1].input)) <= 1)
       => /\ Cardinality(Matching(calls[2].after, calls[2].input)) = 1
          /\ calls[1].response.obj = calls[2].response.obj
          /\ calls[1].response.obj # None

\* with the model's fields as the only input keys, and at most one matching
\* record beforehand, get-or-create is as claimed
GetOrCreatePlain ==
    /\ \A k \in CallsOf("get_or_create") :
            (/\ calls[k].input.keys \subseteq {"name", "age", "form_prefix"}
             /\ Cardinality(Matching(calls[k].before, calls[k].input)) <= 1)
            => GetsOrCreates(calls[k])
    /\ (/\ Len(calls) = 2 /\ CallsOf("get_or_create") = {1, 2}
        /\ calls[1].input = calls[2].input
        /\ calls[1].input.keys \subseteq {"name", "age", "form_prefix"}
        /\ Cardinality(Matching(calls[1].before, calls[1].input)) <= 1)
       => /\ Cardinality(Matching(calls[2].after, calls[2].input)) = 1
          /\ calls[1].response.obj = calls[2].response.obj
          /\ calls[1].response.obj # None
GetOrCreateTwice ==
    /\ Len(calls) = 2 /\ CallsOf("get_or_create") = {1, 2}
    /\ calls[1].input = calls[2].input
    /\ calls[1].before # calls[1].after
    /\ calls[2].before = calls[2].after

\* the record with exactly the supplied model fields replaced
Updated(r, input) == save(r, input.keys \cap {"name", "age"}, input)

\* C19: an update mutation built from a model changes, on the record named by
\* id, exactly the model fields supplied in its input and leaves every other
\* field of that record and every other record unchanged, whatever other input
\* keys (clientMutationId, a form prefix) accompany them.
C19_UpdateExactlySupplied ==
    \A k \in CallsOf("update") :
        \A r \in NamedBy(calls[k].before, calls[k].input.id) :
            calls[k].after = (calls[k].before \ {r}) \cup {Updated(r, calls[k].input)}

\* the update is as claimed when no other key accompanies the model's fields
UpdatePlain ==
    \A k \in CallsOf("update") :
        \A r \in NamedBy(calls[k].before, calls[k].input.id) :
            calls[k].input.keys \subseteq {"id", "name", "age"} =>
                calls[k].after = (calls[k].before \ {r}) \cup {Updated(r, calls[k].input)}
UpdateWitness ==
    \E k \in CallsOf("update") :
        \E r \in NamedBy(calls[k].before, calls[k].input.id) :
            /\ calls[k].input.keys = {"id", "name"}
            /\ Updated(r, calls[k].input) # r
            /\ Cardinality(calls[k].before) = MaxPets

\* C20: a delete mutation whose id names an existing record removes exactly
\* that record and returns its global id as deletedId with no errors; when the
\* id names no existing record it returns one error entry and a null deletedId
\* and deletes nothing.
C20_Delete ==
    \A k \in CallsOf("delete") :
        LET c == calls[k]
            named == NamedBy(c.before, c.input.id)
        IN  IF named # {}
            THEN /\ c.after = c.before \ named
                 /\ c.response.deleted_id = c.input.id
                 /\ c.response.errors = {} /\ c.response.raised = ""
            ELSE /\ c.after = c.before
                 /\ c.response.deleted_id = NoGid
                 /\ Cardinality(c.response.errors) = 1 /\ c.response.raised = ""

\* the delete is as claimed for the global ids of the mutation's own type
DeleteOwnType ==
    \A k \in CallsOf("delete") :
        LET c == calls[k]
            named == NamedBy(c.before, c.input.id)
        IN  c.input.id.type = "PetType" =>
                IF named # {}
                THEN /\ c.after = c.before \ named
                     /\ c.response.deleted_id = c.input.id
                     /\ c.response.errors = {} /\ c.response.raised = ""
                ELSE /\ c.after = c.before
                     /\ c.response.deleted_id = NoGid
                     /\ Cardinality(c.response.errors) = 1 /\ c.response.raised = ""
DeleteWitness ==
    /\ \E k \in CallsOf("delete") :
            /\ calls[k].input.id.type = "PetType"
            /\ calls[k].after # calls[k].before /\ calls[k].after # {}
    /\ \E k \in CallsOf("delete") :
            /\ calls[k].input.id.type = "PetType"
            /\ calls[k].response.errors # {}

\* -------------------------------------------------------------- C21..C23
\* the ordering values of a row under an order specification
HasNull(r, order_by_) == \E i \in 1..Len(order_by_) : getattr(r, FieldOf(order_by_[i])) = None
AllNull(r, order_by_) == \A i \in 1..Len(order_by_) : getattr(r, FieldOf(order_by_[i])) = None
\* no two distinct rows of S compare equal under the specification
TotalUnder(S, order_by_) ==
    \A r, s \in S : r # s =>
        \E i \in 1..Len(order_by_) :
            getattr(r, FieldOf(order_by_[i])) # getattr(s, FieldOf(order_by_[i]))
\* r comes before s in the order the database returns the collection in
SortsBefore(r, s) == r # s /\ RowBefore(r, s, sp_order_by, 1, sp_db, sp_tie)

\* C21: for all collections, order specifications and anchors, the two
\* partitions split_query returns are disjoint and their union, as sets, is the
\* collection that was split.
C21_PartitionsCover ==
    (sp_parts # NotSplit /\ sp_parts.exc = "") =>
        /\ sp_parts.before \cap sp_parts.after = {}
        /\ sp_parts.before \cup sp_parts.after = SplitQueryset

\* the partitions are disjoint and cover the collection but for the anchor
PartitionsCoverButAnchor ==
    (sp_parts # NotSplit /\ sp_parts.exc = "") =>
        /\ sp_parts.before \cap sp_parts.after = {}
        /\ sp_parts.before \cup sp_parts.after = SplitQueryset \ {sp_instance}
PartitionsWitness ==
    /\ sp_parts # NotSplit /\ sp_parts.exc = ""
    /\ sp_parts.before # {} /\ sp_parts.after # {}
    /\ sp_instance \in SplitQueryset

\* the cursors name the rows next to the anchor in the table's order
NamesNeighbours ==
    LET all == Ordered(sp_table, sp_order_by, sp_db, sp_tie)
        k == CHOOSE i \in 1..Len(all) : all[i] = sp_instance
    IN  /\ sp_cursors.exc = ""
        /\ sp_cursors.before = IF k > 1 THEN instance_to_cursor(all[k - 1]) ELSE NoneStr
        /\ sp_cursors.after = IF k < Len(all) THEN instance_to_cursor(all[k + 1]) ELSE NoneStr

\* C22: for every total order specification and every anchor with no null
\* ordering field, the first partition of split_query is exactly the records
\* that sort strictly before the anchor and the second exactly those that sort
\* strictly after it, so the cursors of get_before_and_after_cursor name the
\* anchor's immediate predecessor and successor.
C22_PartitionsAreBeforeAndAfter ==
    (TotalUnder(sp_table, sp_order_by) /\ ~HasNull(sp_instance, sp_order_by)) =>
        /\ sp_parts # NotSplit =>
              /\ sp_parts.exc = ""
              /\ sp_parts.before = {r \in SplitQueryset : SortsBefore(r, sp_instance)}
              /\ sp_parts.after = {r \in SplitQueryset : SortsBefore(sp_instance, r)}
        /\ sp_cursors # NotNamed => NamesNeighbours

\* the same where no row of the table has a null ordering field
BeforeAndAfterWithoutNull ==
    (TotalUnder(sp_table, sp_order_by) /\ \A r \in sp_table : ~HasNull(r, sp_order_by)) =>
        /\ sp_parts # NotSplit =>
              /\ sp_parts.exc = ""
              /\ sp_parts.before = {r \in SplitQueryset : SortsBefore(r, sp_instance)}
              /\ sp_parts.after = {r \in SplitQueryset : SortsBefore(sp_instance, r)}
        /\ sp_cursors # NotNamed => NamesNeighbours
BeforeAndAfterWitness ==
    /\ Len(sp_order_by) = 2 /\ startswith_minus(sp_order_by[1])
    /\ \A r \in sp_table : ~HasNull(r, sp_order_by)
    /\ sp_parts # NotSplit /\ sp_parts.before # {} /\ sp_parts.after # {}
    /\ sp_cursors # NotNamed /\ sp_cursors.before # NoneStr /\ sp_cursors.after # NoneStr

\* C23: when an ordering field is null on the anchor record, split_query skips
\* that field and still returns the two partitions, for every anchor and every
\* order specification.
C23_NullFieldSkipped ==
    (sp_parts # NotSplit /\ HasNull(sp_instance, sp_order_by)) => sp_parts.exc = ""

\* the partitions are returned while one ordering field of the anchor has a value
NullFieldSkippedWhileOneIsLeft ==
    (sp_parts # NotSplit /\ HasNull(sp_instance, sp_order_by)
     /\ ~AllNull(sp_instance, sp_order_by))
    => /\ sp_parts.exc = ""
       /\ sp_parts.before = {r \in SplitQueryset : r.pk # None /\
                (IF startswith_minus(sp_order_by[Len(sp_order_by)])
                 THEN r.pk > sp_instance.pk ELSE r.pk < sp_instance.pk)}
NullFieldWitness ==
    /\ sp_parts # NotSplit /\ HasNull(sp_instance, sp_order_by)
    /\ sp_parts.exc = "" /\ sp_parts.before # {}

\* ------------------------------------------------------------------ C25
\* the cursor is well-formed and names no row of the table
NamesNoRow(cursor) ==
    /\ StrTruthy(cursor) /\ IntBase16(cursor).ok
    /\ \A r \in table : r.pk # IntBase16(cursor).val

\* C25: if the record named by a before or after cursor has been deleted, or
\* never existed, when the cursor is looked up, the request fails with an error
\* and returns no page: the cursor is neither treated as absent nor moved to a
\* neighbouring record.
C25_MissingRecordFails ==
    [][((pc = "before" /\ pc' # "before" /\ NamesNoRow(args.before))
        \/ (pc = "after" /\ pc' # "after" /\ NamesNoRow(args.after)))
       => (pc' = "done" /\ outcome' = "error" /\ error' = Raised("DoesNotExist")
           /\ edges' = <<>>)]_vars

\* the request failed on an after cursor whose record was deleted while the
\* request was being resolved
C25_Witness ==
    /\ Finished /\ outcome = "error" /\ error = Raised("DoesNotExist") /\ edges = <<>>
    /\ NamesNoRow(args.after)
    /\ \E t \in snaps : \E r \in t : r.pk = IntBase16(args.after).val

\* ------------------------------------------------------------------ C28
\* C28: an update or delete mutation whose input id is the global id of a
\* different node type than the mutation's model never modifies or deletes a
\* record of the mutation's model.
C28_OtherTypeIdTouchesNothing ==
    \A k \in CallsOf("update") \cup CallsOf("delete") :
        calls[k].input.id.type # "PetType" => calls[k].after = calls[k].before

\* such an id leaves the table alone when no Pet has its primary key
OtherTypeIdOfNoPet ==
    \A k \in CallsOf("update") \cup CallsOf("delete") :
        (calls[k].input.id.type # "PetType" /\ get_pk(calls[k].before, calls[k].input.id.id) = {})
        => calls[k].after = calls[k].before
OtherTypeUpdateTouchesNothing ==
    \A k \in CallsOf("update") :
        calls[k].input.id.type # "PetType" => calls[k].after = calls[k].before

\* ------------------------------------------------------------------ C24
\* the primary keys the traversing client has received, page after page
ReceivedPks == Flatten(got) \o NodePks(edges)
TraversalOver == trav /\ Finished /\ ~(outcome = "page" /\ has_next_page)

\* C24: under a total order whose field values are never updated, a client that
\* pages forward with first=k and after set to the previous endCursor, while
\* other processes insert and delete records other than the current anchor
\* between its requests, never receives the same record on two pages and
\* receives every record that was present throughout the traversal.
C24_TraversalUnderWrites ==
    (trav /\ Finished /\ NoTies(table)) =>
        /\ \A i, j \in 1..Len(ReceivedPks) : ReceivedPks[i] = ReceivedPks[j] => i = j
        /\ TraversalOver => \A r \in present : \E i \in 1..Len(ReceivedPks) : ReceivedPks[i] = r.pk

\* the same where no ordering value of a row the table ever held is NULL
TraversalUnderWritesWithoutNull ==
    (trav /\ Finished /\ \A r \in used : ~HasNull(r, order_by)) =>
        /\ \A i, j \in 1..Len(ReceivedPks) : ReceivedPks[i] = ReceivedPks[j] => i = j
        /\ TraversalOver => \A r \in present : \E i \in 1..Len(ReceivedPks) : ReceivedPks[i] = r.pk
TraversalUnderWritesWitness ==
    /\ TraversalOver /\ outcome = "page" /\ changes > 0 /\ Len(got) >= 2
    /\ Len(order_by) = 2 /\ \A r \in used : ~HasNull(r, order_by)
    /\ present # {} /\ \E r \in table : r \notin present

\* ------------------------------------------------------------------ C27
RaceOver == race # NoRace /\ \A p \in Procs : race.procs[p].at = "done"
NoneMatchedBefore == Matching(race.before, race.input) = {}

\* C27: when two get-or-create mutations with the same valid input run
\* concurrently and no matching record exists beforehand, at most one record is
\* created and both mutations return that record.
C27_ConcurrentGetOrCreate ==
    (RaceOver /\ NoneMatchedBefore) =>
        /\ Cardinality(pets \ race.before) <= 1
        /\ \E r \in pets \ race.before :
             \A p \in Procs : race.procs[p].response = Response("", {}, r.pk, NoGid)

\* every mutation returns a record that matches its input, and a record that
\* existed beforehand is returned by all of them
ConcurrentGetOrCreateReturnsAMatch ==
    (RaceOver /\ Cardinality(Matching(race.before, race.input)) <= 1) =>
        /\ \A p \in Procs : \E r \in Matching(pets, race.input) :
             race.procs[p].response = Response("", {}, r.pk, NoGid)
        /\ ~NoneMatchedBefore => pets = race.before
ConcurrentGetOrCreateWitness ==
    /\ RaceOver /\ NoneMatchedBefore /\ race.before # {}
    /\ Cardinality(pets \ race.before) = 1

\* -------------------------------------------------------------- C26, C29
\* the subscriptions started on the connection
Subscriptions == {k \in Starts : subs[k].op # ""}

\* C26: by the time websocket_disconnect has finished, every subscription that
\* was started on the connection has been disposed exactly once, whatever stop
\* messages were processed earlier and even when a later start message reused
\* the id of an earlier subscription.
C26_AllDisposedAtDisconnect ==
    consumer = "stopped" => \A k \in Subscriptions : subs[k].disposed

\* the subscriptions whose id no later subscription took are disposed
LastOfEachIdDisposed ==
    consumer = "stopped" =>
        \A k \in Subscriptions :
            (\A j \in Subscriptions : j > k => asked[j].id # asked[k].id) => subs[k].disposed
LastOfEachIdWitness ==
    /\ consumer = "stopped" /\ Cardinality(Subscriptions) = 2
    /\ stop_sent # {} /\ \A k \in Subscriptions : subs[k].disposed /\ Unshared(k)

\* the server has processed a stop message for id i
StopProcessed(i) ==
    /\ i \in stop_sent
    /\ \A j \in 1..Len(inbox) : ~(inbox[j].type = "stop" /\ inbox[j].id = i)
\* the step hands a data frame of id i to the connection
SendsData(i) ==
    /\ Len(wire') = Len(wire) + 1
    /\ wire'[Len(wire')].type = "data" /\ wire'[Len(wire')].id = i

\* C29: once the server has processed a stop message for subscription id i, it
\* sends no further data message carrying id i on that connection, even if
\* values were emitted or events were sent to the subscribed group just before
\* or after the stop (i being the id of that subscription alone).
C29_NoDataAfterStop ==
    [][\A k \in Subscriptions :
          (Unshared(k) /\ StopProcessed(asked[k].id)) => ~SendsData(asked[k].id)]_vars

\* once the stop is processed no further data message of id i is scheduled, i
\* being the id of one start message alone
NoDataScheduledAfterStop ==
    [][\A k \in Subscriptions : (StopProcessed(asked[k].id) /\ Unshared(k)) =>
          \A m \in 1..Len(ready') :
              (ready'[m].type = "data" /\ ready'[m].id = asked[k].id) =>
                  \E j \in 1..Len(ready) : ready[j] = ready'[m]]_vars

\* ------------------------------------------------------------------ C30
HasComma(choice) == \E i \in 1..Len(choice) : choice[i] = ","

\* C30: for every orderBy argument that MultipleOrderingFilter accepts
\* (including a list element that is itself a comma-joined combination such as
\* 'age,-pk'), the field sequence the connection resolver uses to split the
\* collection at a cursor equals the field sequence the filter used to order
\* the queryset.
C30_ResolverSplitsByFilterOrder ==
    (filter_ordering # NotDerived /\ resolver_order_by # NotDerived)
    => resolver_order_by = filter_ordering

\* the two agree when no element of the list is a combination
SplitsByFilterOrderWithoutCombination ==
    (filter_ordering # NotDerived /\ resolver_order_by # NotDerived
     /\ \A i \in 1..Len(order_by_value) : ~HasComma(order_by_value[i]))
    => resolver_order_by = filter_ordering
SplitsByFilterOrderWitness ==
    /\ order_by_value = <<F_age, <<"-">> \o F_pk>>
    /\ filter_ordering = order_by_value /\ resolver_order_by = order_by_value

====
